---- MODULE Spec2Model ----
(***************************************************************************)
(* Failover core of claude-code-relay: circuit breaker, health monitor,    *)
(* capturing response writer and the fallback handler's attempt loop.      *)
(*                                                                         *)
(* Time is an integer clock counted in half minutes.                       *)
(***************************************************************************)
EXTENDS Integers, Sequences, FiniteSets, TLC

\* ------------------------------------------------------------------------
\* Bounds of the model
\* ------------------------------------------------------------------------
MaxTime == 2
MaxThreshold == 2
MaxWindow == 1
MaxFailureCount == 3
MaxConsecutive == 6
NumCallers == 2
NumAccounts == 2
MaxRetriesBound == 2
MaxRequests == 2
MaxEnvOps == 1
\* sink calls one executor run makes at most
MaxExecOps == 4
MaxExecOpsHandler == 1
NumGroups == 2
MaxHandlers == 2
MaxWaits == 2

\* ------------------------------------------------------------------------
\* Program constants
\* ------------------------------------------------------------------------
CircuitClosed == 0
CircuitOpen == 1
CircuitHalfOpen == 2
\* consecutive successes that close a half-open breaker
SuccessToClose == 5
\* the zero time.Time of a freshly constructed breaker or health entry
ZeroTime == -1
\* time.Since of the zero time saturates at the maximal duration
MaxDuration == 1000000

VARIABLES
    config,       \* the FallbackConfig h.config points to
    selector,     \* h.selector, fixed when the handler is constructed
    monitorStarted, \* NewFallbackHandler started healthMonitor.Start
    health,       \* healthMonitor.accountHealth
    requestHistory, \* h.requestHistory
    rq,           \* the locals of the HandleRequestWithFallback call in flight
    capture,      \* the StreamingResponseCapture of the running attempt
    client,       \* the client's gin.ResponseWriter: header map and what it received
    hist,         \* history of the request in flight (invocations, outcomes, writes)
    execLimit,    \* sink calls one executor run makes at most
    reqCount,     \* handle() calls started
    envOps,       \* administrative calls made
    now,          \* the wall clock
    cb,           \* the CircuitBreaker struct
    mu,           \* holder of cb.mu (0 = free)
    lftWriting,   \* a RecordFailure is in the middle of writing lastFailureTime
    cbpc,         \* position of each caller inside a breaker method
    cbreg,        \* register of each caller (loaded consecutiveSuccess)
    lastTrans,    \* history: the last change of cb.state, <<from, to>>
    succSinceHalfOpen, \* history: successes counted since the last entry into HalfOpen
    rr,           \* the RoundRobinSelector struct
    candidates,   \* the []model.Account a caller hands to the selectors
    perf,         \* AdaptiveSelector.performanceData
    call,         \* history: the last call made on a selector or on the history
    rrRun,        \* history: the Round-Robin calls made and who came first how often
    fm,           \* the FallbackManager: handlers, config and the holder of fm.mu
    fmpc,         \* position of each caller inside a manager method
    hs,           \* the FallbackHandler objects the manager has constructed
    fmlog,        \* history: what GetHandler returned and built since the last Cleanup
    rrc           \* callers inside RoundRobinSelector.Select, statement by statement

\* what the handler's request path leaves alone, the selector's state apart
lifeVars == <<fm, fmpc, hs, fmlog, rrc>>
sideVars == <<candidates, perf, call, rrRun, lifeVars>>
breakerVars == <<cb, mu, lftWriting, cbpc, cbreg, lastTrans, succSinceHalfOpen, rr, sideVars>>
\* what only the concurrent callers of the breaker use
callerVars == <<mu, lftWriting, cbpc, cbreg, lastTrans, succSinceHalfOpen, rr, sideVars>>
handlerVars == <<config, selector, monitorStarted, health, requestHistory, rq, capture, client, hist,
                 execLimit, reqCount, envOps>>
vars == <<config, selector, monitorStarted, health, requestHistory, rq, capture, client, hist,
          execLimit, reqCount, envOps,
          now, cb, mu, lftWriting, cbpc, cbreg, lastTrans, succSinceHalfOpen,
          rr, candidates, perf, call, rrRun, fm, fmpc, hs, fmlog, rrc>>

\* variables no breaker method touches
NotBreaker == <<now, handlerVars, rr, sideVars>>

Callers == 1 .. NumCallers

Since(t, clock) == IF t = ZeroTime THEN MaxDuration ELSE clock - t

NewCircuitBreaker(threshold, failureWindow, recoveryWindow) ==
    [ state |-> CircuitClosed,
      failureCount |-> 0,
      lastFailureTime |-> ZeroTime,
      consecutiveSuccess |-> 0,
      threshold |-> threshold,
      failureWindow |-> failureWindow,
      recoveryWindow |-> recoveryWindow ]

NoTrans == <<CircuitClosed, CircuitClosed>>

\* ------------------------------------------------------------------------
\* CircuitBreaker.IsOpen, one step per shared-memory access
\* ------------------------------------------------------------------------

\* atomic.LoadInt32(&cb.state) and the switch on it
IsOpenLoad(p) ==
    /\ cbpc[p] = "idle"
    /\ cbpc' = [cbpc EXCEPT ![p] = IF cb.state = CircuitOpen THEN "io_check" ELSE "idle"]
    /\ UNCHANGED <<cb, mu, lftWriting, cbreg, lastTrans, succSinceHalfOpen>>
    /\ UNCHANGED NotBreaker

\* time.Since(cb.lastFailureTime) > cb.recoveryWindow, read without cb.mu:
\* while a RecordFailure is writing the field the read yields the old value
\* or the one being written
IsOpenCheck(p) ==
    /\ cbpc[p] = "io_check"
    /\ \E t \in (IF lftWriting THEN {cb.lastFailureTime, now} ELSE {cb.lastFailureTime}) :
          /\ cbpc' = [cbpc EXCEPT ![p] =
                        IF Since(t, now) > cb.recoveryWindow THEN "io_cas" ELSE "idle"]
    /\ UNCHANGED <<cb, mu, lftWriting, cbreg, lastTrans, succSinceHalfOpen>>
    /\ UNCHANGED NotBreaker

\* atomic.CompareAndSwapInt32(&cb.state, CircuitOpen, CircuitHalfOpen)
IsOpenCAS(p) ==
    /\ cbpc[p] = "io_cas"
    /\ IF cb.state = CircuitOpen
         THEN /\ cb' = [cb EXCEPT !.state = CircuitHalfOpen]
              /\ cbpc' = [cbpc EXCEPT ![p] = "io_reset"]
              /\ lastTrans' = <<CircuitOpen, CircuitHalfOpen>>
              /\ succSinceHalfOpen' = 0
         ELSE /\ cbpc' = [cbpc EXCEPT ![p] = "idle"]
              /\ UNCHANGED <<cb, lastTrans, succSinceHalfOpen>>
    /\ UNCHANGED <<mu, lftWriting, cbreg>>
    /\ UNCHANGED NotBreaker

\* cb.consecutiveSuccess = 0, written without cb.mu
IsOpenReset(p) ==
    /\ cbpc[p] = "io_reset"
    /\ cb' = [cb EXCEPT !.consecutiveSuccess = 0]
    /\ cbpc' = [cbpc EXCEPT ![p] = "idle"]
    /\ UNCHANGED <<mu, lftWriting, cbreg, lastTrans, succSinceHalfOpen>>
    /\ UNCHANGED NotBreaker

\* ------------------------------------------------------------------------
\* CircuitBreaker.RecordSuccess
\* ------------------------------------------------------------------------

RecordSuccessBeginMut(p) ==
    /\ cbpc[p] = "idle"
    /\ mu = 0
    /\ IF cb.state # CircuitClosed
         THEN /\ cb.consecutiveSuccess < MaxConsecutive
              /\ mu' = p
              /\ cbreg' = [cbreg EXCEPT ![p] = cb.consecutiveSuccess]
              /\ cbpc' = [cbpc EXCEPT ![p] = "rs_store"]
              /\ UNCHANGED cb
         ELSE /\ cb' = IF Since(cb.lastFailureTime, now) > cb.failureWindow
                         THEN [cb EXCEPT !.failureCount = 0] ELSE cb
              /\ UNCHANGED <<mu, cbreg, cbpc>>
    /\ UNCHANGED <<lftWriting, lastTrans, succSinceHalfOpen>>
    /\ UNCHANGED NotBreaker

\* cb.mu.Lock(), the load of cb.state, and either the read half of
\* consecutiveSuccess++ (HalfOpen) or the whole Closed branch
RecordSuccessBegin(p) ==
    /\ cbpc[p] = "idle"
    /\ mu = 0
    /\ IF cb.state = CircuitHalfOpen
         THEN /\ cb.consecutiveSuccess < MaxConsecutive
              /\ mu' = p
              /\ cbreg' = [cbreg EXCEPT ![p] = cb.consecutiveSuccess]
              /\ cbpc' = [cbpc EXCEPT ![p] = "rs_store"]
              /\ UNCHANGED cb
         ELSE /\ cb' = IF /\ cb.state = CircuitClosed
                          /\ Since(cb.lastFailureTime, now) > cb.failureWindow
                         THEN [cb EXCEPT !.failureCount = 0] ELSE cb
              /\ UNCHANGED <<mu, cbreg, cbpc>>
    /\ UNCHANGED <<lftWriting, lastTrans, succSinceHalfOpen>>
    /\ UNCHANGED NotBreaker

\* the write half of cb.consecutiveSuccess++
RecordSuccessStore(p) ==
    /\ cbpc[p] = "rs_store"
    /\ cb' = [cb EXCEPT !.consecutiveSuccess = cbreg[p] + 1]
    /\ cbpc' = [cbpc EXCEPT ![p] = "rs_check"]
    /\ UNCHANGED <<mu, lftWriting, cbreg, lastTrans, succSinceHalfOpen>>
    /\ UNCHANGED NotBreaker

\* if cb.consecutiveSuccess >= 5 { state = Closed; failureCount = 0 }, unlock.
\* The compared value is the register or a fresh read of the racy field.
RecordSuccessCheck(p) ==
    /\ cbpc[p] = "rs_check"
    /\ \E v \in {cbreg[p] + 1, cb.consecutiveSuccess} :
          IF v >= SuccessToClose
            THEN /\ cb' = [cb EXCEPT !.state = CircuitClosed, !.failureCount = 0]
                 /\ lastTrans' = <<cb.state, CircuitClosed>>
            ELSE UNCHANGED <<cb, lastTrans>>
    /\ succSinceHalfOpen' = succSinceHalfOpen + 1
    /\ mu' = 0
    /\ cbpc' = [cbpc EXCEPT ![p] = "idle"]
    /\ UNCHANGED <<lftWriting, cbreg>>
    /\ UNCHANGED NotBreaker

\* ------------------------------------------------------------------------
\* CircuitBreaker.RecordFailure
\* ------------------------------------------------------------------------

\* cb.mu.Lock(); cb.failureCount++; the write of lastFailureTime begins
RecordFailureBegin(p) ==
    /\ cbpc[p] = "idle"
    /\ mu = 0
    /\ cb.failureCount < MaxFailureCount
    /\ mu' = p
    /\ cb' = [cb EXCEPT !.failureCount = @ + 1]
    /\ lftWriting' = TRUE
    /\ cbpc' = [cbpc EXCEPT ![p] = "rf_end"]
    /\ UNCHANGED <<cbreg, lastTrans, succSinceHalfOpen>>
    /\ UNCHANGED NotBreaker

\* a breaker that opens one failure late
FailureTransitionMut(b) ==
    IF b.state = CircuitHalfOpen THEN CircuitOpen
    ELSE IF b.state = CircuitClosed /\ b.failureCount > b.threshold THEN CircuitOpen
    ELSE b.state

\* the state RecordFailure stores after counting the failure
FailureTransition(b) ==
    IF b.state = CircuitHalfOpen THEN CircuitOpen
    ELSE IF b.state = CircuitClosed /\ b.failureCount >= b.threshold THEN CircuitOpen
    ELSE b.state

\* lastFailureTime = time.Now() completes; the state is loaded and stored; unlock
RecordFailureEnd(p) ==
    /\ cbpc[p] = "rf_end"
    /\ cb' = [cb EXCEPT !.lastFailureTime = now, !.state = FailureTransition(cb)]
    /\ lastTrans' = IF FailureTransition(cb) # cb.state
                      THEN <<cb.state, FailureTransition(cb)>> ELSE lastTrans
    /\ lftWriting' = FALSE
    /\ mu' = 0
    /\ cbpc' = [cbpc EXCEPT ![p] = "idle"]
    /\ UNCHANGED <<cbreg, succSinceHalfOpen>>
    /\ UNCHANGED NotBreaker

\* ------------------------------------------------------------------------
\* The clock
\* ------------------------------------------------------------------------
Tick ==
    /\ now < MaxTime
    /\ now' = now + 1
    /\ UNCHANGED <<breakerVars, handlerVars>>

\* ------------------------------------------------------------------------
\* The breaker methods run by one caller without interference
\* ------------------------------------------------------------------------
\* a breaker that stamps a call it turns away as its last failure
IsOpenMut(b, clock) ==
    IF b.state = CircuitOpen /\ Since(b.lastFailureTime, clock) > b.recoveryWindow
      THEN [open |-> FALSE,
            cb |-> [b EXCEPT !.state = CircuitHalfOpen, !.consecutiveSuccess = 0]]
      ELSE [open |-> (b.state = CircuitOpen),
            cb |-> IF b.state = CircuitOpen
                     THEN [b EXCEPT !.lastFailureTime = clock] ELSE b]

IsOpen(b, clock) ==
    IF b.state = CircuitOpen /\ Since(b.lastFailureTime, clock) > b.recoveryWindow
      THEN [open |-> FALSE,
            cb |-> [b EXCEPT !.state = CircuitHalfOpen, !.consecutiveSuccess = 0]]
      ELSE [open |-> (b.state = CircuitOpen), cb |-> b]

RecordSuccess(b, clock) ==
    IF b.state = CircuitHalfOpen
      THEN IF b.consecutiveSuccess + 1 >= SuccessToClose
             THEN [b EXCEPT !.consecutiveSuccess = @ + 1,
                            !.state = CircuitClosed, !.failureCount = 0]
             ELSE [b EXCEPT !.consecutiveSuccess = @ + 1]
      ELSE IF b.state = CircuitClosed /\ Since(b.lastFailureTime, clock) > b.failureWindow
             THEN [b EXCEPT !.failureCount = 0]
             ELSE b

RecordFailure(b, clock) ==
    LET counted == [b EXCEPT !.failureCount = @ + 1, !.lastFailureTime = clock]
    IN  [counted EXCEPT !.state = FailureTransition(counted)]

\* ------------------------------------------------------------------------
\* Accounts and selectors
\* ------------------------------------------------------------------------
Accounts == 1 .. NumAccounts

\* the candidates' fields, owned by the caller: account 1 is preferred,
\* all the others share priority 2
Priority(a) == IF a = 1 THEN 1 ELSE 2
TodayUsageCount(a) == 0

Min(a, b) == IF a < b THEN a ELSE b


\* candidate lists a caller passes: distinct accounts in any order
CandidateLists ==
    UNION { { s \in [1 .. n -> Accounts] : \A x, y \in 1 .. n : x # y => s[x] # s[y] }
            : n \in 0 .. NumAccounts }

Orderings(s) ==
    { [k \in 1 .. Len(s) |-> s[f[k]]] :
        f \in { g \in [1 .. Len(s) -> 1 .. Len(s)] :
                  \A x, y \in 1 .. Len(s) : x # y => g[x] # g[y] } }

\* the model.Account row behind a candidate of the handler
Weight(a) == 1
CurrentStatus(a) == 1
AccountRow(a) ==
    [ID |-> a, Priority |-> Priority(a), Weight |-> Weight(a),
     TodayUsageCount |-> TodayUsageCount(a), CurrentStatus |-> CurrentStatus(a)]
RowsOf(accounts) == [k \in 1 .. Len(accounts) |-> AccountRow(accounts[k])]
IDsOf(rows) == [k \in 1 .. Len(rows) |-> rows[k].ID]

\* sort.Slice is not stable: any arrangement without an inversion may result
SortSlice(s, less(_, _)) ==
    { q \in Orderings(s) : \A x, y \in 1 .. Len(q) : x < y => ~less(q[y], q[x]) }

\* a comparison by Priority alone
PriorityLessMut(x, y) == x.Priority < y.Priority

\* the less function PrioritySelector hands to sort.Slice
PriorityLess(x, y) ==
    IF x.Priority # y.Priority
      THEN x.Priority < y.Priority
      ELSE x.TodayUsageCount < y.TodayUsageCount

PrioritySelect(accounts) == SortSlice(accounts, PriorityLess)

RECURSIVE TotalWeight(_)
TotalWeight(accounts) ==
    IF accounts = <<>> THEN 0 ELSE Head(accounts).Weight + TotalWeight(Tail(accounts))

\* usageFactor in thousandths: 1 - usage/1000, at least 0.1
UsageFactor(account) ==
    IF 1000 - account.TodayUsageCount < 100 THEN 100 ELSE 1000 - account.TodayUsageCount

\* calculateActualWeight times 1000 * |totalWeight|, which keeps the order
calculateActualWeight(account, totalWeight) ==
    IF totalWeight = 0 THEN 0
    ELSE IF totalWeight > 0 THEN account.Weight * UsageFactor(account)
    ELSE 0 - account.Weight * UsageFactor(account)

WeightedSelect(accounts) ==
    LET totalWeight == TotalWeight(accounts)
        less(x, y) == calculateActualWeight(x, totalWeight)
                        > calculateActualWeight(y, totalWeight)
    IN  SortSlice(accounts, less)

LeastUsedLess(x, y) ==
    IF x.TodayUsageCount # y.TodayUsageCount
      THEN x.TodayUsageCount < y.TodayUsageCount
      ELSE x.Priority < y.Priority

LeastUsedSelect(accounts) == SortSlice(accounts, LeastUsedLess)

\* calculateAccountScore in thousandths of a point
calculateAccountScore(account) ==
    LET weightScore == 400 * account.Weight
        usageScore == IF account.TodayUsageCount > 0
                        THEN IF 30000 - 30 * account.TodayUsageCount < 0
                               THEN 0 ELSE 30000 - 30 * account.TodayUsageCount
                        ELSE 30000
        statusScore == IF account.CurrentStatus = 1 THEN 30000
                       ELSE IF account.CurrentStatus = 3 THEN 10000
                       ELSE 0
    IN  weightScore + usageScore + statusScore

ScoreLess(x, y) == calculateAccountScore(x) > calculateAccountScore(y)

\* the priorities HybridSelector walks through
HybridFirstPriority == 1
HybridLastPriority == 100

\* priorityGroups[priority], in the order the accounts came
PriorityGroup(accounts, priority) ==
    SelectSeq(accounts, LAMBDA account : account.Priority = priority)

\* the loop of HybridSelector.Select from one priority on
RECURSIVE HybridFrom(_, _)
HybridFrom(accounts, priority) ==
    IF priority > HybridLastPriority THEN {<<>>}
    ELSE LET group == PriorityGroup(accounts, priority)
         IN  IF group = <<>>
               THEN HybridFrom(accounts, priority + 1)
               ELSE { g \o rest : g \in SortSlice(group, ScoreLess),
                                  rest \in HybridFrom(accounts, priority + 1) }

HybridSelect(accounts) == HybridFrom(accounts, HybridFirstPriority)

\* a RoundRobinSelector as createAccountSelector builds it; a key missing
\* from lastSelected reads as 0
NewRoundRobinSelector == [lastSelected |-> [a \in Accounts |-> 0], counter |-> 0]

\* the orders RoundRobinSelector.Select may return
RoundRobinSelect(s, accounts) ==
    LET roundRobin(account) == s.counter - s.lastSelected[account.ID]
        less(x, y) == roundRobin(x) > roundRobin(y)
    IN  SortSlice(accounts, less)

\* the selector after the call: every account of the list is stamped
RoundRobinAfter(s, accounts) ==
    [lastSelected |-> [a \in Accounts |->
                         IF \E k \in 1 .. Len(accounts) : accounts[k].ID = a
                           THEN s.counter ELSE s.lastSelected[a]],
     counter |-> s.counter + 1]

StrategyPriorityFirst == "priority_first"
StrategyWeighted == "weighted"
StrategyRoundRobin == "round_robin"
StrategyLeastUsed == "least_used"

createAccountSelector(strategy) ==
    IF strategy = StrategyPriorityFirst THEN "PrioritySelector"
    ELSE IF strategy = StrategyWeighted THEN "WeightedSelector"
    ELSE IF strategy = StrategyRoundRobin THEN "RoundRobinSelector"
    ELSE IF strategy = StrategyLeastUsed THEN "LeastUsedSelector"
    ELSE "HybridSelector"

\* selector.Select(accounts) on account rows: the orders it may return
SelectRows(sel, accounts) ==
    IF sel = "PrioritySelector" THEN PrioritySelect(accounts)
    ELSE IF sel = "WeightedSelector" THEN WeightedSelect(accounts)
    ELSE IF sel = "RoundRobinSelector" THEN RoundRobinSelect(rr, accounts)
    ELSE IF sel = "LeastUsedSelector" THEN LeastUsedSelect(accounts)
    ELSE HybridSelect(accounts)

\* h.selector.Select(accounts): the orders the selector may return
Select(sel, accounts) == { IDsOf(q) : q \in SelectRows(sel, RowsOf(accounts)) }

\* ------------------------------------------------------------------------
\* HTTP headers and the client's response writer
\* ------------------------------------------------------------------------
\* A header value is a sequence of tokens; strings.Contains is token membership.
ApplicationJSON == <<"application/json">>
TextEventStream == <<"text/event-stream">>

HeaderNames == {"Content-Type", "Content-Length", "X-Upstream"}
EmptyHeader == [n \in HeaderNames |-> <<>>]

\* http.Header.Get: the first value, or the empty string
HeaderGet(h, name) == IF h[name] = <<>> THEN <<>> ELSE h[name][1]
HeaderSet(h, name, value) == [h EXCEPT ![name] = <<value>>]
HeaderAdd(h, name, value) == [h EXCEPT ![name] = Append(@, value)]

Contains(value, token) == \E k \in 1 .. Len(value) : value[k] = token

isFallbackStreamResponse(header) ==
    LET contentType == HeaderGet(header, "Content-Type")
    IN  \/ Contains(contentType, "text/event-stream")
        \/ Contains(contentType, "text/plain")
        \/ Contains(contentType, "application/x-ndjson")

\* the client side of c.Writer: the shared header map and the calls received
NewClient == [header |-> EmptyHeader, log |-> <<>>]
ClientWriteHeader(cl, code) ==
    [cl EXCEPT !.log = Append(@, [op |-> "WriteHeader", arg |-> <<code>>])]
ClientWrite(cl, data) ==
    [cl EXCEPT !.log = Append(@, [op |-> "Write", arg |-> data])]
ClientFlush(cl) ==
    [cl EXCEPT !.log = Append(@, [op |-> "Flush", arg |-> <<>>])]

RECURSIVE BodyOf(_)
\* the body bytes a log delivered, in order
BodyOf(log) ==
    IF log = <<>> THEN <<>>
    ELSE (IF log[1].op = "Write" THEN log[1].arg ELSE <<>>) \o BodyOf(Tail(log))

RECURSIVE CodesOf(_)
\* the status codes a log delivered, in order
CodesOf(log) ==
    IF log = <<>> THEN <<>>
    ELSE (IF log[1].op = "WriteHeader" THEN log[1].arg ELSE <<>>) \o CodesOf(Tail(log))

\* ------------------------------------------------------------------------
\* StreamingResponseCapture
\* ------------------------------------------------------------------------
\* (startTime, firstByteTime, hasReceivedData and totalDataSize only feed log lines)
NoCapture == [statusCode |-> 0, isSuccess |-> FALSE, buffer |-> <<>>,
              headerSet |-> FALSE, headersCopied |-> FALSE, isStreamMode |-> FALSE,
              upstreamHeaders |-> EmptyHeader]

NewStreamingResponseCapture ==
    [statusCode |-> 200, isSuccess |-> FALSE, buffer |-> <<>>,
     headerSet |-> FALSE, headersCopied |-> FALSE, isStreamMode |-> FALSE,
     upstreamHeaders |-> EmptyHeader]

\* copies every header present in the writer's map into the cache
CacheUpstreamHeaders(w, cl) ==
    IF ~w.isStreamMode
      THEN [w EXCEPT !.upstreamHeaders =
              [n \in HeaderNames |-> IF cl.header[n] # <<>> THEN cl.header[n] ELSE @[n]]]
      ELSE w

IsSuccessCode(statusCode) == statusCode >= 200 /\ statusCode < 400

\* the mode is decided once, at the first WriteHeader or Write
DecideMode(w, cl) ==
    IF ~w.headersCopied
      THEN [w EXCEPT !.isStreamMode = isFallbackStreamResponse(cl.header),
                     !.headersCopied = TRUE]
      ELSE w

WriteHeader(w, cl, statusCode) ==
    LET w1 == DecideMode([w EXCEPT !.statusCode = statusCode,
                                   !.isSuccess = IsSuccessCode(statusCode)], cl)
    IN  IF w1.isStreamMode
          THEN IF w1.isSuccess /\ ~w1.headerSet
                 THEN [w |-> [w1 EXCEPT !.headerSet = TRUE],
                       cl |-> ClientWriteHeader(cl, statusCode)]
                 ELSE [w |-> w1, cl |-> cl]
          ELSE [w |-> CacheUpstreamHeaders(w1, cl), cl |-> cl]

Write(w, cl, data) ==
    IF Len(data) = 0 THEN [w |-> w, cl |-> cl]
    ELSE LET w1 == DecideMode(w, cl)
         IN  IF w1.isStreamMode
               THEN IF w1.isSuccess /\ w1.headerSet
                      THEN [w |-> w1, cl |-> ClientFlush(ClientWrite(cl, data))]
                    ELSE IF w1.isSuccess /\ ~w1.headerSet
                      THEN [w |-> [w1 EXCEPT !.headerSet = TRUE],
                            cl |-> ClientFlush(ClientWrite(
                                       ClientWriteHeader(cl, w1.statusCode), data))]
                    ELSE [w |-> [w1 EXCEPT !.buffer = @ \o data], cl |-> cl]
               ELSE [w |-> [w1 EXCEPT !.buffer = @ \o data], cl |-> cl]

RECURSIVE AddAll(_, _, _)
AddAll(h, name, values) ==
    IF values = <<>> THEN h
    ELSE AddAll(HeaderAdd(h, name, values[1]), name, Tail(values))

RECURSIVE ReplayHeaders(_, _, _)
\* Header().Add of every cached value except Content-Length and Content-Type
ReplayHeaders(h, cached, names) ==
    IF names = {} THEN h
    ELSE LET n == CHOOSE x \in names : TRUE
         IN  ReplayHeaders(IF n \in {"Content-Length", "Content-Type"}
                             THEN h ELSE AddAll(h, n, cached[n]),
                           cached, names \ {n})

FlushNonStreamResponse(w, cl) ==
    IF ~w.isStreamMode /\ w.isSuccess
      THEN LET h1 == ReplayHeaders(cl.header, w.upstreamHeaders, HeaderNames)
               h2 == HeaderSet(h1, "Content-Type", ApplicationJSON)
               c1 == [cl EXCEPT !.header = h2]
               c2 == IF ~w.headerSet THEN ClientWriteHeader(c1, w.statusCode) ELSE c1
           IN  [w |-> [w EXCEPT !.headerSet = TRUE], cl |-> ClientWrite(c2, w.buffer)]
      ELSE [w |-> w, cl |-> cl]

\* ------------------------------------------------------------------------
\* HealthMonitor
\* ------------------------------------------------------------------------
ThirtySeconds == 1
OneMinute == 2
FiveMinutes == 10
TenMinutes == 20

\* a nil *time.Time
NoTime == ZeroTime

\* an ErrorRate is kept as the fraction it was computed from
ZeroRate == [num |-> 0, den |-> 1]
\* rate > a/b
RateAbove(rate, a, b) == rate.num * b > a * rate.den

AbsentHealth ==
    [exists |-> FALSE, Status |-> "", LastCheckTime |-> ZeroTime,
     SuccessCount |-> 0, FailureCount |-> 0, AvgResponseTime |-> 0,
     ErrorRate |-> ZeroRate, LastFailure |-> ZeroTime, LastSuccess |-> ZeroTime,
     DisabledUntil |-> NoTime, FailureReason |-> <<>>]

NewAccountHealth(status, clock) ==
    [AbsentHealth EXCEPT !.exists = TRUE, !.Status = status, !.LastCheckTime = clock]

\* an error rate that counts the failures against the successes alone
ComputeErrorRateMut(h) ==
    IF h.SuccessCount + h.FailureCount > 0
      THEN [h EXCEPT !.ErrorRate = [num |-> h.FailureCount, den |-> h.SuccessCount + 1]]
      ELSE h

ComputeErrorRate(h) ==
    IF h.SuccessCount + h.FailureCount > 0
      THEN [h EXCEPT !.ErrorRate =
              [num |-> h.FailureCount, den |-> h.SuccessCount + h.FailureCount]]
      ELSE h

shouldTemporarilyDisable(h, clock) ==
    IF RateAbove(h.ErrorRate, 4, 5)
      THEN LET recentFailures ==
                 IF h.LastFailure # ZeroTime /\ h.LastFailure > clock - FiveMinutes
                   THEN 1 ELSE 0
           IN  recentFailures >= 3
      ELSE FALSE

UpdateHealthStatus(hm, accountID, result, clock) ==
    LET h0 == IF hm[accountID].exists THEN hm[accountID]
              ELSE NewAccountHealth("healthy", clock)
        h1 == IF result.Success
                THEN [h0 EXCEPT !.SuccessCount = @ + 1, !.LastSuccess = clock]
                ELSE LET f == [h0 EXCEPT !.FailureCount = @ + 1, !.LastFailure = clock,
                                         !.FailureReason = result.ErrorMessage]
                     IN  IF shouldTemporarilyDisable(f, clock)
                           THEN [f EXCEPT !.DisabledUntil = clock + TenMinutes]
                           ELSE f
        h2 == [h1 EXCEPT !.AvgResponseTime =
                 IF @ = 0 THEN result.Duration ELSE (@ + result.Duration) \div 2]
    IN  [hm EXCEPT ![accountID] = ComputeErrorRate(h2)]

IsDisabled(h, clock) == h.DisabledUntil # NoTime /\ clock < h.DisabledUntil

\* a sweep that tests the error rate before the idle time
determineHealthStatusMut(h, clock) ==
    IF IsDisabled(h, clock) THEN "disabled"
    ELSE IF RateAbove(h.ErrorRate, 1, 2) THEN "unhealthy"
    ELSE IF RateAbove(h.ErrorRate, 1, 5) THEN "degraded"
    ELSE IF /\ Since(h.LastSuccess, h.LastCheckTime) > FiveMinutes
            /\ Since(h.LastFailure, h.LastCheckTime) > FiveMinutes THEN "idle"
    ELSE IF h.AvgResponseTime > ThirtySeconds THEN "degraded"
    ELSE "healthy"


determineHealthStatus(h, clock) ==
    IF IsDisabled(h, clock) THEN "disabled"
    ELSE IF /\ Since(h.LastSuccess, h.LastCheckTime) > FiveMinutes
            /\ Since(h.LastFailure, h.LastCheckTime) > FiveMinutes THEN "idle"
    ELSE IF RateAbove(h.ErrorRate, 1, 2) THEN "unhealthy"
    ELSE IF RateAbove(h.ErrorRate, 1, 5) THEN "degraded"
    ELSE IF h.AvgResponseTime > ThirtySeconds THEN "degraded"
    ELSE IF h.AvgResponseTime > OneMinute THEN "unhealthy"
    ELSE "healthy"

performHealthCheck(hm, clock) ==
    [a \in DOMAIN hm |->
        IF hm[a].exists
          THEN LET h1 == ComputeErrorRate([hm[a] EXCEPT !.LastCheckTime = clock])
               IN  [h1 EXCEPT !.Status = determineHealthStatus(h1, clock)]
          ELSE hm[a]]

ManualReason == <<109>>

SetAccountDisabled(hm, accountID, duration, reason, clock) ==
    LET h0 == IF hm[accountID].exists THEN hm[accountID]
              ELSE NewAccountHealth("disabled", clock)
    IN  [hm EXCEPT ![accountID] =
           [h0 EXCEPT !.DisabledUntil = clock + duration, !.Status = "disabled",
                      !.FailureReason = reason]]

EnableAccount(hm, accountID) ==
    IF hm[accountID].exists
      THEN [hm EXCEPT ![accountID] =
              [@ EXCEPT !.DisabledUntil = NoTime, !.Status = "healthy",
                        !.FailureReason = <<>>]]
      ELSE hm

\* ------------------------------------------------------------------------
\* FallbackHandler: request history
\* ------------------------------------------------------------------------
HistoryCap == 100

LastN(s, n) == IF Len(s) > n THEN SubSeq(s, Len(s) - n + 1, Len(s)) ELSE s

\* h.requestHistory is a map: a function on the account ids it has as keys
NoRequestHistory == [a \in {} |-> <<>>]

\* reading a missing key gives the nil slice
HistoryOf(history, accountID) ==
    IF accountID \in DOMAIN history THEN history[accountID] ELSE <<>>

\* the loop over the map that keeps, of every history, the entries newer
\* than cutoff and deletes the key of a history left empty
RECURSIVE KeepAfter(_, _, _)
KeepAfter(history, ids, cutoff) ==
    IF ids = {} THEN NoRequestHistory
    ELSE LET id == CHOOSE x \in ids : TRUE
             validTimes == SelectSeq(history[id], LAMBDA t : t > cutoff)
             others == KeepAfter(history, ids \ {id}, cutoff)
         IN  IF validTimes = <<>> THEN others ELSE (id :> validTimes) @@ others

\* h.requestHistory[accountID] = append(...), cut to the newest HistoryCap
AppendCapped(history, accountID, clock) ==
    (accountID :> LastN(Append(HistoryOf(history, accountID), clock), HistoryCap))
      @@ history

\* a recordRequest that trims the history of the recorded account only
recordRequestMut(history, accountID, clock) ==
    LET appended == AppendCapped(history, accountID, clock)
    IN  KeepAfter(appended, {accountID}, clock - TenMinutes) @@ appended

recordRequest(history, accountID, clock) ==
    LET appended == AppendCapped(history, accountID, clock)
    IN  KeepAfter(appended, DOMAIN appended, clock - TenMinutes)

OneHour == 120
OneDay == 2880

\* the request-history part of FallbackHandler.cleanup
RECURSIVE CapAll(_, _)
CapAll(history, ids) ==
    IF ids = {} THEN NoRequestHistory
    ELSE LET id == CHOOSE x \in ids : TRUE
         IN  (id :> LastN(history[id], HistoryCap)) @@ CapAll(history, ids \ {id})

cleanupHistory(history, clock) ==
    LET valid == KeepAfter(history, DOMAIN history, clock - OneHour)
    IN  CapAll(valid, DOMAIN valid)

CleanupStaleData(hm, maxAge, clock) ==
    [a \in DOMAIN hm |->
        IF hm[a].exists /\ hm[a].LastCheckTime < clock - maxAge
          THEN AbsentHealth ELSE hm[a]]

\* ------------------------------------------------------------------------
\* FallbackHandler: configuration and results
\* ------------------------------------------------------------------------
\* the built-in configuration, its numbers scaled to the bounds
getDefaultConfig ==
    [MaxRetries |-> MaxRetriesBound, RetryDelay |-> 0, Strategy |-> StrategyPriorityFirst,
     EnableCircuitBreaker |-> TRUE, CircuitBreakerThreshold |-> 1,
     FailureWindow |-> 1, RecoveryWindow |-> 1, EnableHealthCheck |-> TRUE]

\* what the FALLBACK_* environment variables can make of it
Overrides ==
    [MaxRetries : 1 .. MaxRetriesBound,
     RetryDelay : {0, 1},
     Strategy : {StrategyPriorityFirst},
     EnableCircuitBreaker : BOOLEAN,
     CircuitBreakerThreshold : {1},
     FailureWindow : {1},
     RecoveryWindow : {1},
     EnableHealthCheck : BOOLEAN]

\* the configurations a handler is constructed with: at most one setting
\* differs from the built-in one
ConfigSet ==
    {c \in Overrides :
        Cardinality({f \in DOMAIN c : c[f] # getDefaultConfig[f]}) <= 1}

BreakerOpenMessage == <<1>>
NoAccountsMessage == <<2>>

NoResult ==
    [Success |-> FALSE, Account |-> 0, StatusCode |-> 0, ErrorMessage |-> <<>>,
     AttemptCount |-> 0, Duration |-> 0, StrategyUsed |-> "", FailureReason |-> ""]

IdleRequest ==
    [pc |-> "idle", accounts |-> <<>>, sortedAccounts |-> <<>>, i |-> 0,
     maxAttempts |-> 0, account |-> 0, startTime |-> 0, attemptStartTime |-> 0,
     result |-> NoResult, lastResult |-> NoResult, hasLastResult |-> FALSE,
     lastError |-> <<>>, ops |-> 0]

NoHistory ==
    [invoked |-> <<>>, outcomes |-> <<>>, written |-> <<>>, logBefore |-> <<>>,
     skipped |-> {}, breakerSaidOpen |-> FALSE, headersSet |-> {}]

StatusCodes == {200, 500}
ExecData == {<<>>, <<97>>}
ExecHeaders == {<<"Content-Type", ApplicationJSON>>, <<"Content-Type", TextEventStream>>}
DisableDurations == {ThirtySeconds}

\* ------------------------------------------------------------------------
\* FallbackHandler.HandleRequestWithFallback, one request in flight
\* ------------------------------------------------------------------------
Elapsed(since) == now - since

\* a caller enters HandleRequestWithFallback with a fresh gin.Context
StartRequest(accounts) ==
    /\ rq.pc \in {"idle", "done"}
    /\ reqCount < MaxRequests
    /\ rq' = [IdleRequest EXCEPT !.pc = "breaker", !.accounts = accounts,
                                 !.startTime = now]
    /\ client' = NewClient
    /\ capture' = NoCapture
    /\ hist' = NoHistory
    /\ reqCount' = reqCount + 1
    /\ UNCHANGED <<config, selector, monitorStarted, health, requestHistory,
                   execLimit, envOps, now, breakerVars>>

BreakerOpenResult ==
    [NoResult EXCEPT !.ErrorMessage = BreakerOpenMessage,
                     !.FailureReason = "circuit_breaker_open",
                     !.Duration = Elapsed(rq.startTime)]

\* a handler that asks the breaker and goes on whatever it answers
CheckBreakerMut ==
    /\ rq.pc = "breaker"
    /\ cb' = IF config.EnableCircuitBreaker THEN IsOpen(cb, now).cb ELSE cb
    /\ rq' = [rq EXCEPT !.pc = "select"]
    /\ UNCHANGED <<config, selector, monitorStarted, health, requestHistory, capture,
                   client, hist, execLimit, reqCount, envOps, now, callerVars>>

\* if h.config.EnableCircuitBreaker && h.circuitBreaker.IsOpen() { return ... }
CheckBreaker ==
    /\ rq.pc = "breaker"
    /\ IF config.EnableCircuitBreaker
         THEN /\ cb' = IsOpen(cb, now).cb
              /\ IF IsOpen(cb, now).open
                   THEN /\ rq' = [rq EXCEPT !.pc = "done", !.result = BreakerOpenResult]
                        /\ hist' = [hist EXCEPT !.breakerSaidOpen = TRUE]
                   ELSE /\ rq' = [rq EXCEPT !.pc = "select"]
                        /\ UNCHANGED hist
         ELSE /\ rq' = [rq EXCEPT !.pc = "select"]
              /\ UNCHANGED <<cb, hist>>
    /\ UNCHANGED <<config, selector, monitorStarted, health, requestHistory, capture,
                   client, execLimit, reqCount, envOps, now, callerVars>>

\* a loop bound that forgets MaxRetries
SelectAccountsMut ==
    /\ rq.pc = "select"
    /\ \E sorted \in Select(selector, rq.accounts) :
          rq' = [rq EXCEPT !.pc = IF Len(sorted) = 0 THEN "done" ELSE "loop",
                           !.accounts = sorted, !.sortedAccounts = sorted, !.i = 0,
                           !.maxAttempts = Len(sorted)]
    /\ rr' = IF selector = "RoundRobinSelector"
               THEN RoundRobinAfter(rr, RowsOf(rq.accounts)) ELSE rr
    /\ UNCHANGED <<config, selector, monitorStarted, health, requestHistory, capture,
                   client, hist, execLimit, reqCount, envOps, now, cb, mu, lftWriting,
                   cbpc, cbreg, lastTrans, succSinceHalfOpen, sideVars>>

\* sortedAccounts := h.selector.Select(accounts), the empty-list return, and
\* the first line of executeFallback
SelectAccounts ==
    /\ rq.pc = "select"
    /\ \E sorted \in Select(selector, rq.accounts) :
          IF Len(sorted) = 0
            THEN /\ rq' = [rq EXCEPT !.pc = "done",
                             !.result = [NoResult EXCEPT
                                           !.ErrorMessage = NoAccountsMessage,
                                           !.FailureReason = "no_available_accounts",
                                           !.Duration = Elapsed(rq.startTime)]]
                 /\ UNCHANGED hist
            ELSE /\ rq' = [rq EXCEPT !.pc = "loop", !.accounts = sorted,
                             !.sortedAccounts = sorted, !.i = 0,
                             !.maxAttempts = Min(config.MaxRetries, Len(sorted))]
                 /\ UNCHANGED hist
    /\ rr' = IF selector = "RoundRobinSelector"
               THEN RoundRobinAfter(rr, RowsOf(rq.accounts)) ELSE rr
    /\ UNCHANGED <<config, selector, monitorStarted, health, requestHistory, capture,
                   client, execLimit, reqCount, envOps, now, cb, mu, lftWriting,
                   cbpc, cbreg, lastTrans, succSinceHalfOpen, sideVars>>

\* the health test of executeFallback for accounts[i]
ShouldSkip(accountID) ==
    /\ config.EnableHealthCheck
    /\ health[accountID].exists
    /\ \/ health[accountID].Status = "unhealthy"
       \/ IsDisabled(health[accountID], now)

\* the loop body's `continue`
SkipAccount ==
    /\ rq.pc = "loop"
    /\ rq.i < rq.maxAttempts
    /\ ShouldSkip(rq.sortedAccounts[rq.i + 1])
    /\ rq' = [rq EXCEPT !.i = @ + 1]
    /\ hist' = [hist EXCEPT !.skipped = @ \cup {rq.sortedAccounts[rq.i + 1]}]
    /\ UNCHANGED <<config, selector, monitorStarted, health, requestHistory, capture,
                   client, execLimit, reqCount, envOps, now, breakerVars>>

\* executeSingleRequest up to the call of requestFunc
BeginAttempt ==
    /\ rq.pc = "loop"
    /\ rq.i < rq.maxAttempts
    /\ ~ShouldSkip(rq.sortedAccounts[rq.i + 1])
    /\ rq' = [rq EXCEPT !.pc = "exec", !.account = rq.sortedAccounts[rq.i + 1],
                        !.attemptStartTime = now, !.ops = 0]
    /\ capture' = NewStreamingResponseCapture
    /\ hist' = [hist EXCEPT !.invoked = Append(@, rq.sortedAccounts[rq.i + 1]),
                            !.written = <<>>, !.logBefore = client.log,
                            !.headersSet = {}]
    /\ UNCHANGED <<config, selector, monitorStarted, health, requestHistory, client,
                   execLimit, reqCount, envOps, now, breakerVars>>

\* the executor: c.Writer.Header().Set(name, value)
ExecSetHeader(name, value) ==
    /\ rq.pc = "exec"
    /\ rq.ops < execLimit
    /\ client' = [client EXCEPT !.header = HeaderSet(@, name, value)]
    /\ rq' = [rq EXCEPT !.ops = @ + 1]
    /\ hist' = [hist EXCEPT !.headersSet = @ \cup {name}]
    /\ UNCHANGED <<config, selector, monitorStarted, health, requestHistory, capture,
                   execLimit, reqCount, envOps, now, breakerVars>>

\* the executor: c.Writer.WriteHeader(statusCode)
ExecWriteHeader(statusCode) ==
    /\ rq.pc = "exec"
    /\ rq.ops < execLimit
    /\ capture' = WriteHeader(capture, client, statusCode).w
    /\ client' = WriteHeader(capture, client, statusCode).cl
    /\ rq' = [rq EXCEPT !.ops = @ + 1]
    /\ UNCHANGED <<config, selector, monitorStarted, health, requestHistory, hist,
                   execLimit, reqCount, envOps, now, breakerVars>>

\* the executor: c.Writer.Write(data)
ExecWrite(data) ==
    /\ rq.pc = "exec"
    /\ rq.ops < execLimit
    /\ capture' = Write(capture, client, data).w
    /\ client' = Write(capture, client, data).cl
    /\ rq' = [rq EXCEPT !.ops = @ + 1]
    /\ hist' = [hist EXCEPT !.written = @ \o data]
    /\ UNCHANGED <<config, selector, monitorStarted, health, requestHistory,
                   execLimit, reqCount, envOps, now, breakerVars>>

AttemptResult(w) ==
    [NoResult EXCEPT !.Account = rq.account, !.StatusCode = w.statusCode,
                     !.AttemptCount = 1, !.Duration = Elapsed(rq.attemptStartTime),
                     !.Success = w.isSuccess,
                     !.ErrorMessage = IF w.isSuccess THEN <<>> ELSE w.buffer]

\* requestFunc returns: the rest of executeSingleRequest
FinishAttempt ==
    /\ rq.pc = "exec"
    /\ requestHistory' = recordRequest(requestHistory, rq.account, now)
    /\ rq' = [rq EXCEPT !.pc = "attempted", !.result = AttemptResult(capture)]
    /\ IF capture.isSuccess /\ ~capture.isStreamMode
         THEN /\ capture' = FlushNonStreamResponse(capture, client).w
              /\ client' = FlushNonStreamResponse(capture, client).cl
         ELSE UNCHANGED <<capture, client>>
    /\ hist' = [hist EXCEPT !.outcomes = Append(@, capture.isSuccess)]
    /\ UNCHANGED <<config, selector, monitorStarted, health, execLimit, reqCount,
                   envOps, now, breakerVars>>

\* a loop that goes on to the next account whatever the attempt returned
AfterAttemptMut ==
    /\ rq.pc = "attempted"
    /\ rq' = [rq EXCEPT !.pc = "loop", !.i = @ + 1, !.lastResult = rq.result,
                        !.hasLastResult = TRUE]
    /\ UNCHANGED <<config, selector, monitorStarted, health, requestHistory, capture,
                   client, hist, execLimit, reqCount, envOps, now, breakerVars>>

\* executeFallback after executeSingleRequest returned
AfterAttempt ==
    /\ rq.pc = "attempted"
    /\ IF rq.result.Success
         THEN rq' = [rq EXCEPT !.pc = "post"]
         ELSE rq' = [rq EXCEPT !.lastError = rq.result.ErrorMessage,
                               !.lastResult = rq.result, !.hasLastResult = TRUE,
                               !.pc = IF rq.i < rq.maxAttempts - 1 /\ config.RetryDelay > 0
                                        THEN "sleep" ELSE "loop",
                               !.i = IF rq.i < rq.maxAttempts - 1 /\ config.RetryDelay > 0
                                       THEN @ ELSE @ + 1]
    /\ UNCHANGED <<config, selector, monitorStarted, health, requestHistory, capture,
                   client, hist, execLimit, reqCount, envOps, now, breakerVars>>

\* time.Sleep(h.config.RetryDelay), then the loop's i++
Sleep ==
    /\ rq.pc = "sleep"
    /\ now + config.RetryDelay <= MaxTime
    /\ now' = now + config.RetryDelay
    /\ rq' = [rq EXCEPT !.pc = "loop", !.i = @ + 1]
    /\ UNCHANGED <<config, selector, monitorStarted, health, requestHistory, capture,
                   client, hist, execLimit, reqCount, envOps, breakerVars>>

\* the loop is over without a success
Exhausted ==
    /\ rq.pc = "loop"
    /\ rq.i >= rq.maxAttempts
    /\ rq' = [rq EXCEPT !.pc = "post",
                !.result = IF rq.hasLastResult
                             THEN [rq.lastResult EXCEPT
                                     !.Duration = Elapsed(rq.startTime),
                                     !.FailureReason = "all_accounts_failed"]
                             ELSE [NoResult EXCEPT
                                     !.ErrorMessage = rq.lastError,
                                     !.AttemptCount = rq.maxAttempts,
                                     !.Duration = Elapsed(rq.startTime),
                                     !.FailureReason = "all_accounts_failed"]]
    /\ UNCHANGED <<config, selector, monitorStarted, health, requestHistory, capture,
                   client, hist, execLimit, reqCount, envOps, now, breakerVars>>

\* result.StrategyUsed = h.config.Strategy and the breaker update
UpdateBreaker ==
    /\ rq.pc = "post"
    /\ rq' = [rq EXCEPT !.pc = "health", !.result.StrategyUsed = config.Strategy]
    /\ cb' = IF config.EnableCircuitBreaker
               THEN IF rq.result.Success THEN RecordSuccess(cb, now)
                                         ELSE RecordFailure(cb, now)
               ELSE cb
    /\ UNCHANGED <<config, selector, monitorStarted, health, requestHistory, capture,
                   client, hist, execLimit, reqCount, envOps, now, callerVars>>

\* the health update and the return
UpdateHealth ==
    /\ rq.pc = "health"
    /\ rq' = [rq EXCEPT !.pc = "done"]
    /\ health' = IF config.EnableHealthCheck /\ rq.result.Account # 0
                   THEN UpdateHealthStatus(health, rq.result.Account, rq.result, now)
                   ELSE health
    /\ UNCHANGED <<config, selector, monitorStarted, requestHistory, capture, client,
                   hist, execLimit, reqCount, envOps, now, breakerVars>>

\* ------------------------------------------------------------------------
\* What runs beside a request
\* ------------------------------------------------------------------------
\* relay.DisableAccount(groupID, accountID, duration, reason)
DisableAccount(accountID, duration) ==
    /\ envOps < MaxEnvOps
    /\ envOps' = envOps + 1
    /\ health' = SetAccountDisabled(health, accountID, duration, ManualReason, now)
    /\ UNCHANGED <<config, selector, monitorStarted, requestHistory, rq, capture,
                   client, hist, execLimit, reqCount, now, breakerVars>>

\* relay.EnableAccount(groupID, accountID)
ReenableAccount(accountID) ==
    /\ envOps < MaxEnvOps
    /\ envOps' = envOps + 1
    /\ health' = EnableAccount(health, accountID)
    /\ UNCHANGED <<config, selector, monitorStarted, requestHistory, rq, capture,
                   client, hist, execLimit, reqCount, now, breakerVars>>

\* a tick of the sweeper started by NewFallbackHandler
HealthSweep ==
    /\ monitorStarted
    /\ health' = performHealthCheck(health, now)
    /\ UNCHANGED <<config, selector, monitorStarted, requestHistory, rq, capture,
                   client, hist, execLimit, reqCount, envOps, now, breakerVars>>

\* time passes while no request is inside the handler
Elapse ==
    /\ rq.pc \in {"idle", "done"}
    /\ Tick

\* ------------------------------------------------------------------------
\* NewFallbackHandler and the handler's specification
\* ------------------------------------------------------------------------
NewFallbackHandler(c) ==
    /\ config = c
    /\ selector = createAccountSelector(c.Strategy)
    /\ cb = NewCircuitBreaker(c.CircuitBreakerThreshold, c.FailureWindow, c.RecoveryWindow)
    /\ monitorStarted = c.EnableHealthCheck
    /\ health = [a \in Accounts |-> AbsentHealth]
    /\ requestHistory = NoRequestHistory
    /\ rr = NewRoundRobinSelector

NoCallers ==
    /\ mu = 0
    /\ lftWriting = FALSE
    /\ cbpc = [p \in Callers |-> "idle"]
    /\ cbreg = [p \in Callers |-> 0]
    /\ lastTrans = NoTrans
    /\ succSinceHalfOpen = 0

\* no Round-Robin call made yet: calls, who came first how often, the list
\* of the first call and whether every call so far was given that list
NoRun == [n |-> 0, first |-> [a \in Accounts |-> 0], list |-> <<>>, same |-> TRUE]

\* ------------------------------------------------------------------------
\* The FallbackManager and the handlers it constructs
\* ------------------------------------------------------------------------
Groups == 1 .. NumGroups
HandlerIDs == 1 .. MaxHandlers

\* a slot of the heap no handler has been constructed in
NoHandler ==
    [made |-> FALSE, config |-> getDefaultConfig, stopChan |-> "open",
     cleanupTicker |-> "none", cleanupLoop |-> "none", sweepLoop |-> "none",
     monitorStopped |-> FALSE]

\* NewFallbackHandler as the manager sees it: the handler object with its
\* stop channel, the sweep goroutine started when health checks are enabled
\* and the cleanup goroutine with its hourly ticker
NewHandlerObject(c) ==
    [made |-> TRUE, config |-> c, stopChan |-> "open",
     cleanupTicker |-> "running", cleanupLoop |-> "running",
     sweepLoop |-> IF c.EnableHealthCheck THEN "running" ELSE "none",
     monitorStopped |-> FALSE]

\* InitFallbackManager: an empty map (0 = no entry) and the given config
InitFallbackManager(c) ==
    [handlers |-> [g \in Groups |-> 0], config |-> c, mu |-> 0]

NoManagerLog ==
    [returned |-> [g \in Groups |-> {}], built |-> [g \in Groups |-> 0],
     second |-> {}, passes |-> 0,
     inFlight |-> FALSE, replaced |-> getDefaultConfig]

\* no caller is inside RoundRobinSelector.Select
NoRoundRobinCalls ==
    [p \in Callers |-> [pc |-> "idle", result |-> <<>>, reg |-> 0, done |-> 0]]

\* the manager right after InitFallbackManager(nil), no handler constructed
NoLife ==
    /\ fm = InitFallbackManager(getDefaultConfig)
    /\ fmpc = [p \in Callers |-> [pc |-> "idle", g |-> 0]]
    /\ hs = [h \in HandlerIDs |-> NoHandler]
    /\ fmlog = NoManagerLog
    /\ rrc = NoRoundRobinCalls

\* no call made yet on a selector or on the request history
NoSideCalls ==
    /\ candidates = <<>>
    /\ perf = <<>>
    /\ call = [op |-> "none"]
    /\ rrRun = NoRun
    /\ NoLife

NoRequest ==
    /\ rq = IdleRequest
    /\ capture = NoCapture
    /\ client = NewClient
    /\ hist = NoHistory
    /\ reqCount = 0
    /\ envOps = 0

Init ==
    /\ now = 0
    /\ \E c \in ConfigSet : NewFallbackHandler(c)
    /\ NoRequest
    /\ NoCallers
    /\ NoSideCalls
    /\ execLimit = MaxExecOpsHandler

Next ==
    \/ \E accounts \in CandidateLists : StartRequest(accounts)
    \/ CheckBreaker
    \/ SelectAccounts
    \/ SkipAccount
    \/ BeginAttempt
    \/ \E code \in StatusCodes : ExecWriteHeader(code)
    \/ \E data \in ExecData : ExecWrite(data)
    \/ FinishAttempt
    \/ AfterAttempt
    \/ Sleep
    \/ Exhausted
    \/ UpdateBreaker
    \/ UpdateHealth
    \/ \E a \in Accounts, d \in DisableDurations : DisableAccount(a, d)
    \/ \E a \in Accounts : ReenableAccount(a)
    \/ HealthSweep
    \/ Elapse

Spec == Init /\ [][Next]_vars

\* ------------------------------------------------------------------------
\* One request against a quiet handler, the executor free in what it writes
\* ------------------------------------------------------------------------
\* the first call of HandleRequestWithFallback on the handler
FirstRequest(accounts) ==
    /\ rq.pc = "idle"
    /\ StartRequest(accounts)

InitSink ==
    /\ now = 0
    /\ NewFallbackHandler(getDefaultConfig)
    /\ NoRequest
    /\ NoCallers
    /\ NoSideCalls
    /\ execLimit = MaxExecOps

NextSink ==
    \/ \E accounts \in CandidateLists : FirstRequest(accounts)
    \/ CheckBreaker
    \/ SelectAccounts
    \/ BeginAttempt
    \/ \E h \in ExecHeaders : ExecSetHeader(h[1], h[2])
    \/ \E code \in StatusCodes : ExecWriteHeader(code)
    \/ \E data \in ExecData : ExecWrite(data)
    \/ FinishAttempt
    \/ AfterAttempt
    \/ Exhausted
    \/ UpdateBreaker
    \/ UpdateHealth

SpecSink == InitSink /\ [][NextSink]_vars

\* ------------------------------------------------------------------------
\* Claims about the handler and the capture
\* ------------------------------------------------------------------------
\* C1: when an attempt is classified successful, the client has received
\* exactly the bytes the executor wrote during that attempt, in order, and
\* nothing of the failed attempts before it.
C1_ClientGetsSuccessfulAttempt ==
    (rq.pc = "attempted" /\ rq.result.Success) => BodyOf(client.log) = hist.written

\* C2: when an attempt is classified failed, whatever the executor called on
\* the capture, the client has received neither a status code nor a byte of
\* that attempt.
C2_FailedAttemptInvisible ==
    (rq.pc = "attempted" /\ ~rq.result.Success) => client.log = hist.logBefore

\* C3: when the breaker is enabled and IsOpen() answers true at the start of
\* HandleRequestWithFallback, the call returns at once with Success false and
\* the breaker-open failure reason (the tag breaker_open, spelled
\* circuit_breaker_open in the result), and the executor is invoked for no
\* account of that request.
C3_BreakerOpenShortCircuits ==
    /\ [][(/\ rq.pc = "breaker"
           /\ rq' # rq
           /\ config.EnableCircuitBreaker
           /\ IsOpen(cb, now).open)
         => (/\ rq'.pc = "done"
             /\ ~rq'.result.Success
             /\ rq'.result.FailureReason = "circuit_breaker_open"
             /\ rq'.result.Account = 0
             /\ hist'.invoked = <<>>)]_vars
    /\ []((rq.pc = "done" /\ rq.result.FailureReason = "circuit_breaker_open")
            => hist.invoked = <<>>)

\* a request turned away by the breaker a failed request had opened
C3_Witness ==
    /\ rq.pc = "done"
    /\ rq.result.FailureReason = "circuit_breaker_open"
    /\ ~rq.result.Success
    /\ cb.state = CircuitOpen
    /\ reqCount = 2

\* C4: no attempt starts for an account whose health entry has DisabledUntil
\* in the future.
C4_DisabledNeverInvoked ==
    [][(rq.pc = "loop" /\ rq'.pc = "exec")
         => ~(/\ health[rq'.account].exists
              /\ IsDisabled(health[rq'.account], now))]_vars

\* C5: the executor invocations of one request never exceed
\* min(MaxRetries, number of candidates).
C5_AttemptsBounded ==
    Len(hist.invoked) <= Min(config.MaxRetries, Len(rq.accounts))

\* two candidates, MaxRetries 1: the one attempt allowed was made and failed
C5_Witness ==
    /\ rq.pc = "done"
    /\ config.MaxRetries = 1
    /\ Len(rq.accounts) = 2
    /\ Len(hist.invoked) = 1
    /\ rq.result.FailureReason = "all_accounts_failed"

\* position of an account in the selector's answer
PositionIn(seq, a) == CHOOSE k \in 1 .. Len(seq) : seq[k] = a

\* C6: the attempts of one request are sequential and follow the selector's
\* order: an attempt starts only after every earlier one returned failed, the
\* attempted accounts are taken from the ordered list in increasing position
\* (so each at most once), and no attempt follows a successful one.
C6_SequentialInOrder ==
    /\ Len(hist.outcomes) \in {Len(hist.invoked), Len(hist.invoked) - 1}
    /\ Len(hist.outcomes) = Len(hist.invoked) - 1 <=> rq.pc = "exec"
    /\ \A k \in 1 .. Len(hist.invoked) - 1 : hist.outcomes[k] = FALSE
    /\ \A k \in 1 .. Len(hist.invoked) :
          \E j \in 1 .. Len(rq.sortedAccounts) : rq.sortedAccounts[j] = hist.invoked[k]
    /\ \A k \in 1 .. Len(hist.invoked) - 1 :
          PositionIn(rq.sortedAccounts, hist.invoked[k])
            < PositionIn(rq.sortedAccounts, hist.invoked[k + 1])
    /\ hist.invoked # <<>> => rq.sortedAccounts \in Select(selector, rq.accounts)

\* a request whose first attempt failed and whose second succeeded
C6_Witness ==
    /\ rq.pc = "done"
    /\ hist.outcomes = <<FALSE, TRUE>>
    /\ Len(hist.invoked) = 2
    /\ rq.result.Success
    /\ rq.result.Account = hist.invoked[2]

\* ------------------------------------------------------------------------
\* The breaker under concurrent callers
\* ------------------------------------------------------------------------
InitCB ==
    /\ now = 0
    /\ \E th \in 1 .. MaxThreshold, rw \in 1 .. MaxWindow :
          NewFallbackHandler([getDefaultConfig EXCEPT !.CircuitBreakerThreshold = th,
                                                     !.RecoveryWindow = rw])
    /\ NoRequest
    /\ NoCallers
    /\ NoSideCalls
    /\ execLimit = MaxExecOpsHandler

NextCB ==
    \/ \E p \in Callers : IsOpenLoad(p)
    \/ \E p \in Callers : IsOpenCheck(p)
    \/ \E p \in Callers : IsOpenCAS(p)
    \/ \E p \in Callers : IsOpenReset(p)
    \/ \E p \in Callers : RecordSuccessBegin(p)
    \/ \E p \in Callers : RecordSuccessStore(p)
    \/ \E p \in Callers : RecordSuccessCheck(p)
    \/ \E p \in Callers : RecordFailureBegin(p)
    \/ \E p \in Callers : RecordFailureEnd(p)
    \/ Tick

SpecCB == InitCB /\ [][NextCB]_vars

\* ------------------------------------------------------------------------
\* Properties of the breaker
\* ------------------------------------------------------------------------
AllowedTransitions ==
    { <<CircuitClosed, CircuitOpen>>, <<CircuitOpen, CircuitHalfOpen>>,
      <<CircuitHalfOpen, CircuitClosed>>, <<CircuitHalfOpen, CircuitOpen>> }

\* C7: under any interleaving of IsOpen, RecordSuccess and RecordFailure every
\* change of the breaker state is Closed->Open, Open->HalfOpen,
\* HalfOpen->Closed or HalfOpen->Open.
C7_BreakerTransitions ==
    [][cb'.state # cb.state => <<cb.state, cb'.state>> \in AllowedTransitions]_vars

\* the breaker went round the whole cycle and closed again
C7_Witness ==
    /\ lastTrans = <<CircuitHalfOpen, CircuitClosed>>
    /\ cb.state = CircuitClosed

\* C8: with threshold >= 1, whenever no Record call is inside its critical
\* section, a Closed breaker has counted fewer than threshold failures.
C8_ClosedBelowThreshold ==
    (mu = 0 /\ cb.state = CircuitClosed) => cb.failureCount < cb.threshold

\* a failure was recorded in Closed and the breaker stayed Closed
C8_Witness ==
    /\ mu = 0
    /\ cb.state = CircuitClosed
    /\ cb.failureCount >= 1
    /\ cb.failureCount = cb.threshold - 1

\* C9: every Open->HalfOpen transition happens more than recoveryWindow
\* after the last recorded failure.
C9_OpenUntilRecovery ==
    [][(cb.state = CircuitOpen /\ cb'.state = CircuitHalfOpen)
          => Since(cb'.lastFailureTime, now') > cb.recoveryWindow]_vars

\* C10: the breaker goes HalfOpen->Closed exactly when 5 successes have been
\* recorded since it last entered HalfOpen, and failureCount is 0 afterwards.
C10_CloseAfterFiveSuccesses ==
    [][/\ (cb.state = CircuitHalfOpen /\ cb'.state = CircuitClosed)
           => (succSinceHalfOpen' = SuccessToClose /\ cb'.failureCount = 0)
       /\ (/\ cb.state = CircuitHalfOpen
           /\ succSinceHalfOpen' # succSinceHalfOpen
           /\ succSinceHalfOpen' = SuccessToClose)
           => cb'.state = CircuitClosed]_vars

\* ------------------------------------------------------------------------
\* What a finished request leaves in the result and in the health records
\* ------------------------------------------------------------------------
\* C11: with health checking enabled, every failed attempt of a request is
\* recorded in the health entry of the account it failed on, also when a later
\* attempt of the same request succeeds: that entry exists, has counted a
\* failure and carries a lastFailure inside the request.
C11_FailedAttemptRecorded ==
    (rq.pc = "done" /\ config.EnableHealthCheck)
      => \A k \in 1 .. Len(hist.outcomes) :
            ~hist.outcomes[k]
              => /\ health[hist.invoked[k]].exists
                 /\ health[hist.invoked[k]].FailureCount >= 1
                 /\ health[hist.invoked[k]].LastFailure >= rq.startTime

\* C12: the attemptCount of a successful result is the number of times the
\* executor was invoked for the request.
C12_AttemptCountIsInvocations ==
    (rq.pc = "done" /\ rq.result.Success)
      => rq.result.AttemptCount = Len(hist.invoked)

\* C13: with the breaker enabled, a request whose every attempt failed has
\* RecordFailure applied exactly once: failureCount grows by exactly 1 at the
\* breaker update and at no other step of the request, however many attempts
\* were made, and the client has received no byte.
C13_AllFailedCountsOnce ==
    [][/\ (/\ rq.pc = "post"
           /\ rq'.pc = "health"
           /\ config.EnableCircuitBreaker
           /\ rq.result.FailureReason = "all_accounts_failed")
          => /\ cb'.failureCount = cb.failureCount + 1
             /\ BodyOf(client'.log) = <<>>
       /\ (rq.pc # "post" /\ rq' # rq) => cb'.failureCount = cb.failureCount]_vars

\* C14: a request whose loop ends without a success returns success = false,
\* failureReason all_accounts_failed, the error message of the last failed
\* attempt, and attemptCount = maxAttempts = min(maxRetries, number of ordered
\* candidates).
C14_ExhaustedResult ==
    (rq.pc = "done" /\ rq.result.FailureReason = "all_accounts_failed")
      => /\ ~rq.result.Success
         /\ rq.result.ErrorMessage = rq.lastError
         /\ rq.maxAttempts = Min(config.MaxRetries, Len(rq.sortedAccounts))
         /\ rq.result.AttemptCount = rq.maxAttempts

\* ------------------------------------------------------------------------
\* The selectors on their own: one candidate list, any calls on it
\* ------------------------------------------------------------------------
MaxPriority == 2
MaxWeight == 1
MaxUsage == 1
MaxRounds == 2

PriorityValues == 0 .. MaxPriority
WeightValues == 0 .. MaxWeight
UsageValues == 0 .. MaxUsage
StatusValues == {1, 2}

AllRows ==
    [ID : Accounts, Priority : PriorityValues, Weight : WeightValues,
     TodayUsageCount : UsageValues, CurrentStatus : StatusValues]

\* the lists a caller may pass: distinct accounts, any field values
RowLists ==
    UNION { { s \in [1 .. Len(ids) -> AllRows] : \A k \in 1 .. Len(ids) : s[k].ID = ids[k] }
            : ids \in CandidateLists }

Strategies ==
    {StrategyPriorityFirst, StrategyWeighted, StrategyRoundRobin, StrategyLeastUsed, "hybrid"}

StatelessSelectors ==
    { createAccountSelector(strategy) : strategy \in Strategies } \ {"RoundRobinSelector"}

\* the selectors that sort the caller's slice itself
SortsInPlace(sel) == sel \in {"PrioritySelector", "WeightedSelector", "LeastUsedSelector"}

\* Select of a selector that keeps no state
CallSelect(sel) ==
    /\ \E q \in SelectRows(sel, candidates) :
          /\ call' = [op |-> "Select", selector |-> sel, input |-> candidates, result |-> q]
          /\ candidates' = IF SortsInPlace(sel) THEN q ELSE candidates
    /\ UNCHANGED <<now, handlerVars, cb, mu, lftWriting, cbpc, cbreg, lastTrans,
                   succSinceHalfOpen, rr, perf, rrRun, lifeVars>>

\* RoundRobinSelector.Select
CallRoundRobin ==
    /\ rr.counter < MaxRounds
    /\ \E q \in RoundRobinSelect(rr, candidates) :
          /\ call' = [op |-> "Select", selector |-> "RoundRobinSelector",
                      input |-> candidates, result |-> q]
          /\ rrRun' = [n |-> rrRun.n + 1,
                       first |-> IF q = <<>> THEN rrRun.first
                                 ELSE [rrRun.first EXCEPT ![q[1].ID] = @ + 1],
                       list |-> IF rrRun.n = 0 THEN candidates ELSE rrRun.list,
                       same |-> rrRun.same /\ (rrRun.n = 0 \/ candidates = rrRun.list)]
    /\ rr' = RoundRobinAfter(rr, candidates)
    /\ UNCHANGED <<now, handlerVars, cb, mu, lftWriting, cbpc, cbreg, lastTrans,
                   succSinceHalfOpen, candidates, perf, lifeVars>>

InitSelect ==
    /\ now = 0
    /\ NewFallbackHandler(getDefaultConfig)
    /\ NoRequest
    /\ NoCallers
    /\ execLimit = MaxExecOpsHandler
    /\ candidates \in RowLists
    /\ perf = <<>>
    /\ call = [op |-> "none"]
    /\ rrRun = NoRun
    /\ NoLife

NextSelect ==
    \/ \E sel \in StatelessSelectors : CallSelect(sel)
    \/ CallRoundRobin

SpecSelect == InitSelect /\ [][NextSelect]_vars

\* C17: whatever the candidates' priorities, weights and usage counts, the
\* list a selector returns is a permutation of the list it was given.
C17_OrderIsPermutation ==
    call.op = "Select" => call.result \in Orderings(call.input)

\* C18: after N consecutive Round-Robin calls on one list of k candidates,
\* made on a fresh selector, every candidate came first floor(N/k) or
\* ceil(N/k) times.
C18_RoundRobinFair ==
    LET k == Len(rrRun.list)
        n == rrRun.n
    IN  (k > 0 /\ n > 0 /\ rrRun.same)
          => \A j \in 1 .. k :
                \/ rrRun.first[rrRun.list[j].ID] = n \div k
                \/ rrRun.first[rrRun.list[j].ID] = (n + k - 1) \div k

\* ------------------------------------------------------------------------
\* The health monitor on its own: per-result updates, sweeps, manual
\* disabling, in any order
\* ------------------------------------------------------------------------
MaxHealthUpdates == 3
ResultDurations == {0, 1}

RECURSIVE UpdatesIn(_, _)
UpdatesIn(hm, ids) ==
    IF ids = {} THEN 0
    ELSE LET a == CHOOSE x \in ids : TRUE
         IN  hm[a].SuccessCount + hm[a].FailureCount + UpdatesIn(hm, ids \ {a})

\* healthMonitor.UpdateHealthStatus(accountID, result) for any result
HealthUpdate(accountID, success, duration) ==
    /\ UpdatesIn(health, Accounts) < MaxHealthUpdates
    /\ health' = UpdateHealthStatus(health, accountID,
                    [NoResult EXCEPT !.Success = success, !.Account = accountID,
                                     !.Duration = duration,
                                     !.StatusCode = IF success THEN 200 ELSE 500],
                    now)
    /\ UNCHANGED <<config, selector, monitorStarted, requestHistory, rq, capture,
                   client, hist, execLimit, reqCount, envOps, now, breakerVars>>

InitHealth ==
    /\ now = 0
    /\ NewFallbackHandler(getDefaultConfig)
    /\ NoRequest
    /\ NoCallers
    /\ NoSideCalls
    /\ execLimit = MaxExecOpsHandler

NextHealth ==
    \/ \E a \in Accounts, success \in BOOLEAN, d \in ResultDurations :
          HealthUpdate(a, success, d)
    \/ HealthSweep
    \/ \E a \in Accounts, d \in DisableDurations : DisableAccount(a, d)
    \/ \E a \in Accounts : ReenableAccount(a)
    \/ Tick

SpecHealth == InitHealth /\ [][NextHealth]_vars

\* C15: after every per-result update and every sweep, each health entry
\* that has counted a result has errorRate = failureCount / (successCount +
\* failureCount).
C15_ErrorRateIsRatio ==
    \A a \in Accounts :
        (health[a].exists /\ health[a].SuccessCount + health[a].FailureCount > 0)
          => /\ health[a].ErrorRate.den > 0
             /\ health[a].ErrorRate.num * (health[a].SuccessCount + health[a].FailureCount)
                  = health[a].FailureCount * health[a].ErrorRate.den

\* an entry that counted successes and failures and was swept afterwards
C15_Witness ==
    \E a \in Accounts :
        /\ health[a].SuccessCount = 1
        /\ health[a].FailureCount = 2
        /\ health[a].ErrorRate = [num |-> 2, den |-> 3]
        /\ health[a].Status = "unhealthy"

\* C16: when a failure is recorded for an account whose errorRate is above
\* 0.8 and whose last failure is within the last 5 minutes, disabledUntil is
\* set to now + 10 minutes.
C16_DisabledAfterFailures ==
    [][\A a \in Accounts :
          (/\ health[a].exists
           /\ RateAbove(health[a].ErrorRate, 4, 5)
           /\ health'[a].FailureCount = health[a].FailureCount + 1
           /\ health'[a].LastFailure > now' - FiveMinutes)
            => health'[a].DisabledUntil = now' + TenMinutes]_vars

\* ------------------------------------------------------------------------
\* The request history on its own: recordRequest and cleanup in any order
\* ------------------------------------------------------------------------
MaxRecordCalls == 3
MaxBursts == 1
MaxAdvances == 2
\* a caller records once, or in a loop as long as the history's capacity
BurstSizes == {1, HistoryCap}
AdvanceSteps == {FiveMinutes, OneHour}

\* no call made yet; left counts the calls the caller's loop still makes
NoHistoryCalls ==
    [op |-> "none", id |-> 0, before |-> NoRequestHistory, at |-> 0,
     n |-> 0, bursts |-> 0, advances |-> 0, left |-> 0]

\* h.recordRequest(accountID), the first of n calls in a row; call keeps the
\* history the call found
RecordRequest(accountID, n) ==
    /\ call.left = 0
    /\ call.n < MaxRecordCalls
    /\ n > 1 => call.bursts < MaxBursts
    /\ requestHistory' = recordRequest(requestHistory, accountID, now)
    /\ call' = [call EXCEPT !.op = "recordRequest", !.id = accountID,
                            !.before = requestHistory, !.at = now, !.n = @ + 1,
                            !.bursts = IF n > 1 THEN @ + 1 ELSE @, !.left = n - 1]
    /\ UNCHANGED <<config, selector, monitorStarted, health, rq, capture, client, hist,
                   execLimit, reqCount, envOps, now, cb, mu, lftWriting, cbpc, cbreg,
                   lastTrans, succSinceHalfOpen, rr, candidates, perf, rrRun, lifeVars>>

\* the next call of the caller's loop
RecordRequestAgain ==
    /\ call.left > 0
    /\ requestHistory' = recordRequest(requestHistory, call.id, now)
    /\ call' = [call EXCEPT !.before = requestHistory, !.left = @ - 1]
    /\ UNCHANGED <<config, selector, monitorStarted, health, rq, capture, client, hist,
                   execLimit, reqCount, envOps, now, cb, mu, lftWriting, cbpc, cbreg,
                   lastTrans, succSinceHalfOpen, rr, candidates, perf, rrRun, lifeVars>>

\* FallbackHandler.cleanup; h.selector is never an AdaptiveSelector here
Cleanup ==
    /\ call.left = 0
    /\ call.op = "recordRequest"
    /\ requestHistory' = cleanupHistory(requestHistory, now)
    /\ health' = CleanupStaleData(health, OneDay, now)
    /\ call' = [call EXCEPT !.op = "cleanup"]
    /\ UNCHANGED <<config, selector, monitorStarted, rq, capture, client, hist,
                   execLimit, reqCount, envOps, now, cb, mu, lftWriting, cbpc, cbreg,
                   lastTrans, succSinceHalfOpen, rr, candidates, perf, rrRun, lifeVars>>

\* time passes between two calls
Advance(d) ==
    /\ call.left = 0
    /\ call.advances < MaxAdvances
    /\ now' = now + d
    /\ call' = [call EXCEPT !.advances = @ + 1]
    /\ UNCHANGED <<handlerVars, cb, mu, lftWriting, cbpc, cbreg, lastTrans,
                   succSinceHalfOpen, rr, candidates, perf, rrRun, lifeVars>>

InitHistory ==
    /\ now = 0
    /\ NewFallbackHandler(getDefaultConfig)
    /\ NoRequest
    /\ NoCallers
    /\ execLimit = MaxExecOpsHandler
    /\ candidates = <<>>
    /\ perf = <<>>
    /\ rrRun = NoRun
    /\ NoLife
    /\ call = NoHistoryCalls

NextHistory ==
    \/ \E a \in Accounts, n \in BurstSizes : RecordRequest(a, n)
    \/ RecordRequestAgain
    \/ Cleanup
    \/ \E d \in AdvanceSteps : Advance(d)

SpecHistory == InitHistory /\ [][NextHistory]_vars

\* C19: after every recordRequest(id), whatever recordRequest and cleanup
\* calls came before, the history of id is its previous entries that are
\* still newer than ten minutes followed by the new timestamp, cut to the
\* newest 100; no account holds more than 100 entries or an entry ten minutes
\* old or older, and no account is kept with an empty history.
C19_HistoryBounded ==
    call.op = "recordRequest"
      => LET after == HistoryOf(requestHistory, call.id)
             fresh == SelectSeq(HistoryOf(call.before, call.id),
                                LAMBDA t : t > call.at - TenMinutes)
         IN  /\ after = LastN(Append(fresh, call.at), HistoryCap)
             /\ \A a \in DOMAIN requestHistory :
                   /\ requestHistory[a] # <<>>
                   /\ Len(requestHistory[a]) <= HistoryCap
                   /\ \A k \in 1 .. Len(requestHistory[a]) :
                         requestHistory[a][k] > call.at - TenMinutes

\* the call found 100 entries, all still new and the oldest of an earlier
\* time, beside another account whose entries had all grown old
C19_Witness ==
    /\ call.op = "recordRequest"
    /\ Len(HistoryOf(call.before, call.id)) = HistoryCap
    /\ Len(requestHistory[call.id]) = HistoryCap
    /\ call.before[call.id][1] < call.at
    /\ call.before[call.id][1] > call.at - TenMinutes
    /\ DOMAIN call.before # DOMAIN requestHistory

\* ------------------------------------------------------------------------
\* AdaptiveSelector.UpdatePerformance on its own
\* ------------------------------------------------------------------------
\* the size the performance map is expected to stay under
PerformanceCap == 1000
MaxKnownUpdates == 3

\* &PerformanceData{}
NoPerformanceData ==
    [SuccessRate |-> ZeroRate, AvgResponseTime |-> 0, LastSuccess |-> ZeroTime,
     LastFailure |-> ZeroTime, TotalRequests |-> 0, TotalSuccesses |-> 0]

UpdatePerformance(data, accountID, success, responseTime, clock) ==
    LET p0 == IF accountID \in DOMAIN data THEN data[accountID] ELSE NoPerformanceData
        p1 == [p0 EXCEPT !.TotalRequests = @ + 1]
        p2 == IF success
                THEN [p1 EXCEPT !.TotalSuccesses = @ + 1, !.LastSuccess = clock]
                ELSE [p1 EXCEPT !.LastFailure = clock]
        p3 == [p2 EXCEPT !.SuccessRate =
                           [num |-> p2.TotalSuccesses, den |-> p2.TotalRequests]]
        p4 == [p3 EXCEPT !.AvgResponseTime =
                           IF @ = 0 THEN responseTime ELSE (@ + responseTime) \div 2]
    IN  (accountID :> p4) @@ data

\* a result reported for an account the selector has not seen: the ids come
\* in counting order
UpdateUnseen ==
    /\ Cardinality(DOMAIN perf) <= PerformanceCap
    /\ perf' = UpdatePerformance(perf, Cardinality(DOMAIN perf), TRUE, 1, now)
    /\ UNCHANGED <<now, handlerVars, cb, mu, lftWriting, cbpc, cbreg, lastTrans,
                   succSinceHalfOpen, rr, candidates, call, rrRun, lifeVars>>

\* a further result reported for account 0
UpdateKnown(success, responseTime) ==
    /\ 0 \in DOMAIN perf
    /\ perf[0].TotalRequests < MaxKnownUpdates
    /\ perf' = UpdatePerformance(perf, 0, success, responseTime, now)
    /\ UNCHANGED <<now, handlerVars, cb, mu, lftWriting, cbpc, cbreg, lastTrans,
                   succSinceHalfOpen, rr, candidates, call, rrRun, lifeVars>>

NextAdaptive ==
    \/ UpdateUnseen
    \/ \E success \in BOOLEAN, d \in ResultDurations : UpdateKnown(success, d)

SpecAdaptive == InitHealth /\ [][NextAdaptive]_vars

\* C20: after any sequence of UpdatePerformance calls the performance map of
\* the Adaptive selector holds at most 1000 entries.
C20_PerformanceBounded == Cardinality(DOMAIN perf) <= PerformanceCap


\* ------------------------------------------------------------------------
\* The manager's operations and the background loops of its handlers
\* ------------------------------------------------------------------------
\* the configurations UpdateConfig is called with
ManagerConfigs ==
    {getDefaultConfig, [getDefaultConfig EXCEPT !.EnableHealthCheck = FALSE]}

Made == {h \in HandlerIDs : hs[h].made}

\* the handlers constructed that the map no longer holds
Dropped == {h \in Made : \A g \in Groups : fm.handlers[g] # h}

\* mutant of Recheck: the entry stored meanwhile is not looked at
RecheckMut(handlers, g) == 0

\* GetHandler's second lookup, made under the write lock
Recheck(handlers, g) == handlers[g]

Returned(g, h) == [fmlog EXCEPT !.returned[g] = @ \cup {h}]

\* GetHandler, the lookup under the read lock and the return on a hit
GetHandlerLookup(p, g) ==
    /\ fmpc[p].pc = "idle"
    /\ fm.mu = 0
    /\ IF fm.handlers[g] # 0
         THEN /\ fmlog' = Returned(g, fm.handlers[g])
              /\ UNCHANGED fmpc
         ELSE /\ fmpc' = [fmpc EXCEPT ![p] = [pc |-> "miss", g |-> g]]
              /\ UNCHANGED fmlog
    /\ UNCHANGED <<now, handlerVars, cb, mu, lftWriting, cbpc, cbreg, lastTrans,
                   succSinceHalfOpen, rr, candidates, perf, call, rrRun, fm, hs, rrc>>

\* GetHandler, fm.mu.Lock() after a miss
GetHandlerLock(p) ==
    /\ fmpc[p].pc = "miss"
    /\ fm.mu = 0
    /\ fm' = [fm EXCEPT !.mu = p]
    /\ fmpc' = [fmpc EXCEPT ![p].pc = "locked"]
    /\ UNCHANGED <<now, handlerVars, cb, mu, lftWriting, cbpc, cbreg, lastTrans,
                   succSinceHalfOpen, rr, candidates, perf, call, rrRun, hs, fmlog, rrc>>

\* GetHandler under the write lock: look again, construct and store on a
\* second miss, unlock and return
GetHandlerStore(p) ==
    LET g == fmpc[p].g
        found == Recheck(fm.handlers, g)
        new == Cardinality(Made) + 1
    IN  /\ fmpc[p].pc = "locked"
        /\ fm.mu = p
        /\ IF found # 0
             THEN /\ fm' = [fm EXCEPT !.mu = 0]
                  /\ fmlog' = [Returned(g, found) EXCEPT !.second = @ \cup {g}]
                  /\ UNCHANGED hs
             ELSE /\ new \in HandlerIDs
                  /\ hs' = [hs EXCEPT ![new] = NewHandlerObject(fm.config)]
                  /\ fm' = [fm EXCEPT !.mu = 0, !.handlers[g] = new]
                  /\ fmlog' = [Returned(g, new) EXCEPT !.built[g] = @ + 1]
        /\ fmpc' = [fmpc EXCEPT ![p] = [pc |-> "idle", g |-> 0]]
        /\ UNCHANGED <<now, handlerVars, cb, mu, lftWriting, cbpc, cbreg, lastTrans,
                       succSinceHalfOpen, rr, candidates, perf, call, rrRun, rrc>>

\* FallbackManager.Cleanup: the loop over the handlers has an empty body, then
\* the map is replaced by an empty one
ManagerCleanup ==
    /\ fm.mu = 0
    /\ \E g \in Groups : fm.handlers[g] # 0
    /\ fm' = [fm EXCEPT !.handlers = [g \in Groups |-> 0]]
    /\ fmlog' = [fmlog EXCEPT !.returned = [g \in Groups |-> {}],
                              !.built = [g \in Groups |-> 0],
                              !.second = {}]
    /\ UNCHANGED <<now, handlerVars, cb, mu, lftWriting, cbpc, cbreg, lastTrans,
                   succSinceHalfOpen, rr, candidates, perf, call, rrRun, fmpc, hs, rrc>>

\* FallbackManager.UpdateConfig: the manager's config and every stored
\* handler's config pointer are replaced
UpdateConfig(c) ==
    /\ fm.mu = 0
    /\ c # fm.config
    /\ fm' = [fm EXCEPT !.config = c]
    /\ hs' = [h \in HandlerIDs |->
                IF \E g \in Groups : fm.handlers[g] = h
                  THEN [hs[h] EXCEPT !.config = c] ELSE hs[h]]
    /\ UNCHANGED <<now, handlerVars, cb, mu, lftWriting, cbpc, cbreg, lastTrans,
                   succSinceHalfOpen, rr, candidates, perf, call, rrRun, fmpc, fmlog, rrc>>

\* FallbackHandler.Stop: close(h.stopChan), stop the cleanup ticker, and
\* with health checks enabled call healthMonitor.Stop()
Stop(h) ==
    /\ hs[h].made
    /\ hs[h].stopChan = "open"
    /\ hs' = [hs EXCEPT ![h].stopChan = "closed",
                        ![h].cleanupTicker = "stopped",
                        ![h].monitorStopped = hs[h].config.EnableHealthCheck]
    /\ UNCHANGED <<now, handlerVars, cb, mu, lftWriting, cbpc, cbreg, lastTrans,
                   succSinceHalfOpen, rr, candidates, perf, call, rrRun, fm, fmpc, fmlog, rrc>>

\* the goroutine of startCleanupTask takes a tick and runs h.cleanup()
CleanupLoopTick(h) ==
    /\ hs[h].cleanupLoop = "running"
    /\ hs[h].cleanupTicker = "running"
    /\ fmlog' = [fmlog EXCEPT !.passes = 1 - @]
    /\ UNCHANGED <<now, handlerVars, cb, mu, lftWriting, cbpc, cbreg, lastTrans,
                   succSinceHalfOpen, rr, candidates, perf, call, rrRun, fm, fmpc, hs, rrc>>

\* the goroutine of startCleanupTask receives from the closed h.stopChan
CleanupLoopExit(h) ==
    /\ hs[h].cleanupLoop = "running"
    /\ hs[h].stopChan = "closed"
    /\ hs' = [hs EXCEPT ![h].cleanupLoop = "exited"]
    /\ UNCHANGED <<now, handlerVars, cb, mu, lftWriting, cbpc, cbreg, lastTrans,
                   succSinceHalfOpen, rr, candidates, perf, call, rrRun, fm, fmpc, fmlog, rrc>>

\* HealthMonitor.Start takes a tick and runs performHealthCheck; its select
\* has no other case
SweepLoopTick(h) ==
    /\ hs[h].sweepLoop = "running"
    /\ fmlog' = [fmlog EXCEPT !.passes = 1 - @]
    /\ UNCHANGED <<now, handlerVars, cb, mu, lftWriting, cbpc, cbreg, lastTrans,
                   succSinceHalfOpen, rr, candidates, perf, call, rrRun, fm, fmpc, hs, rrc>>

InitManager ==
    /\ now = 0
    /\ NewFallbackHandler(getDefaultConfig)
    /\ NoRequest
    /\ NoCallers
    /\ NoSideCalls
    /\ execLimit = MaxExecOpsHandler

NextManager ==
    \/ \E p \in Callers, g \in Groups : GetHandlerLookup(p, g)
    \/ \E p \in Callers : GetHandlerLock(p)
    \/ \E p \in Callers : GetHandlerStore(p)
    \/ ManagerCleanup
    \/ \E c \in ManagerConfigs : UpdateConfig(c)
    \/ \E h \in HandlerIDs : Stop(h)
    \/ \E h \in HandlerIDs : CleanupLoopTick(h)
    \/ \E h \in HandlerIDs : CleanupLoopExit(h)
    \/ \E h \in HandlerIDs : SweepLoopTick(h)

SpecManager == InitManager /\ [][NextManager]_vars

\* a select whose stop case is ready takes it in the end, and the sweep
\* ticker keeps ticking
SpecManagerFair ==
    /\ SpecManager
    /\ \A h \in HandlerIDs : WF_vars(CleanupLoopExit(h)) /\ WF_vars(SweepLoopTick(h))

C22_CleanupStopsHandlers ==
    \A h \in Dropped : hs[h].stopChan = "closed"

\* C23: once Stop was called on a handler, its cleanup loop and its health
\* sweep loop both exit in the end.
C23_LoopsExitAfterStop ==
    \A h \in HandlerIDs :
        (hs[h].stopChan = "closed") ~>
            (hs[h].cleanupLoop # "running" /\ hs[h].sweepLoop # "running")


\* ------------------------------------------------------------------------
\* A request in flight while the manager replaces the configuration
\* ------------------------------------------------------------------------
\* UpdateConfig as a handler sees it: handler.config = config, written under
\* the manager's mutex, which no request holds
UpdateHandlerConfig(c) ==
    /\ envOps < MaxEnvOps
    /\ c # config
    /\ envOps' = envOps + 1
    /\ config' = c
    /\ fmlog' = [fmlog EXCEPT !.inFlight = rq.pc \notin {"idle", "done"},
                              !.replaced = config]
    /\ UNCHANGED <<selector, monitorStarted, health, requestHistory, rq, capture, client,
                   hist, execLimit, reqCount, now, cb, mu, lftWriting, cbpc, cbreg,
                   lastTrans, succSinceHalfOpen, rr, candidates, perf, call, rrRun,
                   fm, fmpc, hs, rrc>>

\* a fresh handler: no account has a health entry, so the loop skips none
InitConfig ==
    /\ now = 0
    /\ NewFallbackHandler(getDefaultConfig)
    /\ NoRequest
    /\ NoCallers
    /\ NoSideCalls
    /\ execLimit = MaxExecOpsHandler

NextConfig ==
    \/ \E accounts \in CandidateLists : FirstRequest(accounts)
    \/ CheckBreaker
    \/ SelectAccounts
    \/ BeginAttempt
    \/ \E code \in StatusCodes : ExecWriteHeader(code)
    \/ \E data \in ExecData : ExecWrite(data)
    \/ FinishAttempt
    \/ AfterAttempt
    \/ Sleep
    \/ Exhausted
    \/ UpdateBreaker
    \/ UpdateHealth
    \/ \E c \in ConfigSet : UpdateHandlerConfig(c)

SpecConfig == InitConfig /\ [][NextConfig]_vars

\* the configuration h.config pointed to when the request in flight started
ConfigAtStart == IF fmlog.inFlight THEN fmlog.replaced ELSE config

\* the fields of h.config the statement the request is at reads
FieldsRead ==
    IF rq.pc = "breaker" THEN {"EnableCircuitBreaker"}
    ELSE IF rq.pc = "select" THEN {"MaxRetries"}
    ELSE IF rq.pc = "loop" /\ rq.i < rq.maxAttempts THEN {"EnableHealthCheck"}
    ELSE IF rq.pc \in {"attempted", "sleep"} THEN {"RetryDelay"}
    ELSE IF rq.pc = "post" THEN {"Strategy", "EnableCircuitBreaker"}
    ELSE IF rq.pc = "health" THEN {"EnableHealthCheck"}
    ELSE {}

\* C24: every value a request reads from the configuration is the value of
\* the configuration that was current when the request started, also when
\* UpdateConfig runs in between.
C24_OneConfigPerRequest ==
    [][rq' # rq => \A f \in FieldsRead : config[f] = ConfigAtStart[f]]_vars

\* ------------------------------------------------------------------------
\* One request whose executor also relays the upstream's Content-Length
\* ------------------------------------------------------------------------
\* the headers an executor copies from the upstream reply onto c.Writer
UpstreamHeaders ==
    {<<"Content-Type", ApplicationJSON>>, <<"Content-Length", <<"1">>>>,
     <<"X-Upstream", <<"u">>>>}

NextHeaders ==
    \/ \E accounts \in CandidateLists : FirstRequest(accounts)
    \/ CheckBreaker
    \/ SelectAccounts
    \/ BeginAttempt
    \/ \E h \in UpstreamHeaders : ExecSetHeader(h[1], h[2])
    \/ \E code \in StatusCodes : ExecWriteHeader(code)
    \/ \E data \in ExecData : ExecWrite(data)
    \/ FinishAttempt
    \/ AfterAttempt
    \/ Exhausted
    \/ UpdateBreaker
    \/ UpdateHealth

SpecHeaders == InitSink /\ [][NextHeaders]_vars

\* C25: when a non-streaming attempt has succeeded and its buffer has been
\* flushed, the header map the client's response went out with holds
\* Content-Type: application/json and nothing else under that name, and no
\* Content-Length, whatever the executor set.
C25_JSONWithoutContentLength ==
    (rq.pc = "attempted" /\ rq.result.Success /\ ~capture.isStreamMode)
        => /\ client.header["Content-Type"] = <<ApplicationJSON>>
           /\ client.header["Content-Length"] = <<>>

\* C26: when a streaming attempt has succeeded, the client has received the
\* status first and then every chunk the executor wrote, in write order,
\* each followed by a flush.
C26_StreamForwardedInOrder ==
    (rq.pc = "attempted" /\ rq.result.Success /\ capture.isStreamMode)
        => LET got == SubSeq(client.log, Len(hist.logBefore) + 1, Len(client.log))
           IN  /\ got # <<>>
               /\ got[1].op = "WriteHeader"
               /\ BodyOf(got) = hist.written
               /\ \A k \in 1 .. Len(got) :
                     got[k].op = "Write" => (k < Len(got) /\ got[k + 1].op = "Flush")


\* ------------------------------------------------------------------------
\* The sweeper and the hourly cleanup over long stretches of time
\* ------------------------------------------------------------------------
\* the response times reported and the pauses between two calls
SweepDurations == {ThirtySeconds, OneMinute + ThirtySeconds}
SweepWaits == {FiveMinutes + ThirtySeconds}
\* the results and pauses of an account that falls silent for a day
StaleDurations == {ThirtySeconds}
StaleWaits == {OneHour, OneDay}

NoSweepCalls == [op |-> "none", at |-> 0, waits |-> 0]

\* the cleanup goroutine's tick: FallbackHandler.cleanup
CleanupPass ==
    /\ requestHistory' = cleanupHistory(requestHistory, now)
    /\ health' = CleanupStaleData(health, OneDay, now)
    /\ call' = [call EXCEPT !.op = "cleanup", !.at = now]
    /\ UNCHANGED <<config, selector, monitorStarted, rq, capture, client, hist,
                   execLimit, reqCount, envOps, now, cb, mu, lftWriting, cbpc, cbreg,
                   lastTrans, succSinceHalfOpen, rr, candidates, perf, rrRun, lifeVars>>

\* time passes
Wait(d) ==
    /\ call.waits < MaxWaits
    /\ now' = now + d
    /\ call' = [call EXCEPT !.waits = @ + 1]
    /\ UNCHANGED <<handlerVars, cb, mu, lftWriting, cbpc, cbreg, lastTrans,
                   succSinceHalfOpen, rr, candidates, perf, rrRun, lifeVars>>

InitSweep ==
    /\ now = 0
    /\ NewFallbackHandler(getDefaultConfig)
    /\ NoRequest
    /\ NoCallers
    /\ execLimit = MaxExecOpsHandler
    /\ candidates = <<>>
    /\ perf = <<>>
    /\ rrRun = NoRun
    /\ NoLife
    /\ call = NoSweepCalls

NextSweep ==
    \/ \E a \in Accounts, success \in BOOLEAN, d \in SweepDurations :
          HealthUpdate(a, success, d)
    \/ HealthSweep
    \/ \E a \in Accounts, d \in DisableDurations : DisableAccount(a, d)
    \/ \E d \in SweepWaits : Wait(d)

SpecSweep == InitSweep /\ [][NextSweep]_vars

NextStale ==
    \/ \E a \in Accounts, success \in BOOLEAN, d \in StaleDurations :
          HealthUpdate(a, success, d)
    \/ HealthSweep
    \/ CleanupPass
    \/ \E d \in StaleWaits : Wait(d)

SpecStale == InitSweep /\ [][NextStale]_vars

\* the entry has seen no result for five minutes when it is checked
Idle(h) ==
    /\ Since(h.LastSuccess, h.LastCheckTime) > FiveMinutes
    /\ Since(h.LastFailure, h.LastCheckTime) > FiveMinutes

\* C27: a sweep gives an entry that is not disabled, not idle and has an
\* error rate of at most 0.2 the status unhealthy when its average response
\* time is above one minute, degraded when it is above 30 seconds and at most
\* one minute, healthy otherwise.
C27_StatusByResponseTime ==
    [][HealthSweep =>
         \A a \in Accounts :
            LET h == health'[a]
            IN  (/\ h.exists
                 /\ ~IsDisabled(h, now)
                 /\ ~Idle(h)
                 /\ ~RateAbove(h.ErrorRate, 1, 5))
                  => h.Status = IF h.AvgResponseTime > OneMinute THEN "unhealthy"
                                ELSE IF h.AvgResponseTime > ThirtySeconds THEN "degraded"
                                ELSE "healthy"]_vars

\* C28: a sweep gives an entry disabled into the future the status disabled
\* whatever else holds; otherwise an entry idle for five minutes the status
\* idle whatever its error rate; otherwise unhealthy above an error rate of
\* 0.5; otherwise degraded above 0.2.
C28_StatusPrecedence ==
    [][HealthSweep =>
         \A a \in Accounts :
            LET h == health'[a]
            IN  h.exists =>
                  /\ h.LastCheckTime = now
                  /\ IsDisabled(h, now) => h.Status = "disabled"
                  /\ (~IsDisabled(h, now) /\ Idle(h)) => h.Status = "idle"
                  /\ (~IsDisabled(h, now) /\ ~Idle(h) /\ RateAbove(h.ErrorRate, 1, 2))
                       => h.Status = "unhealthy"
                  /\ (/\ ~IsDisabled(h, now) /\ ~Idle(h)
                      /\ ~RateAbove(h.ErrorRate, 1, 2) /\ RateAbove(h.ErrorRate, 1, 5))
                       => h.Status = "degraded"]_vars

\* a sweep found one account idle although all its requests had failed, and
\* the other, which had just failed, unhealthy
C28_Witness ==
    \E a, b \in Accounts :
        /\ health[a].exists /\ health[a].Status = "idle"
        /\ RateAbove(health[a].ErrorRate, 1, 2)
        /\ health[b].exists /\ health[b].Status = "unhealthy"
        /\ ~Idle(health[b])
        /\ health[b].LastCheckTime = health[a].LastCheckTime

\* the last result the entry has seen
LastOutcome(h) == IF h.LastSuccess > h.LastFailure THEN h.LastSuccess ELSE h.LastFailure

\* C30: when the hourly cleanup has run, no health entry is left whose
\* account had seen no result for more than 24 hours by then, the sweeper
\* running or not.
C30_StaleHealthRemoved ==
    call.op = "cleanup"
      => \A a \in Accounts :
            (health[a].exists /\ health[a].SuccessCount + health[a].FailureCount > 0)
              => LastOutcome(health[a]) >= call.at - OneDay


\* ------------------------------------------------------------------------
\* RoundRobinSelector.Select called by several requests at once
\* ------------------------------------------------------------------------
\* Select takes no lock: each caller goes through its statements on its own.
RRIdleVars == <<now, handlerVars, cb, mu, lftWriting, cbpc, cbreg, lastTrans,
                succSinceHalfOpen, candidates, perf, call, rrRun, fm, fmpc, hs, fmlog>>

\* the first loop and sort.Slice: counter and lastSelected are read
RRSort(p) ==
    /\ rrc[p].pc = "idle"
    /\ rrc[p].done < MaxRounds
    /\ \E q \in RoundRobinSelect(rr, candidates) :
          rrc' = [rrc EXCEPT ![p].pc = "sorted", ![p].result = q]
    /\ UNCHANGED <<rr, RRIdleVars>>

\* the second loop is entered
RRStampBegin(p) ==
    /\ rrc[p].pc = "sorted"
    /\ rrc' = [rrc EXCEPT ![p].pc = "stamping"]
    /\ UNCHANGED <<rr, RRIdleVars>>

\* the second loop has written s.lastSelected[id] = s.counter for every account
RRStampEnd(p) ==
    /\ rrc[p].pc = "stamping"
    /\ rr' = [rr EXCEPT !.lastSelected = RoundRobinAfter(rr, candidates).lastSelected]
    /\ rrc' = [rrc EXCEPT ![p].pc = "stamped"]
    /\ UNCHANGED RRIdleVars

\* two goroutines write the map at once and the runtime notices: the process
\* ends with "fatal error: concurrent map writes"
RRCrash ==
    /\ \E p, q \in Callers : p # q /\ rrc[p].pc = "stamping" /\ rrc[q].pc = "stamping"
    /\ rrc' = [p \in Callers |-> [rrc[p] EXCEPT !.pc = "crashed"]]
    /\ UNCHANGED <<rr, RRIdleVars>>

\* s.counter++, the load
RRLoad(p) ==
    /\ rrc[p].pc = "stamped"
    /\ rrc' = [rrc EXCEPT ![p].pc = "loaded", ![p].reg = rr.counter]
    /\ UNCHANGED <<rr, RRIdleVars>>

\* s.counter++, the store, and the return
RRStore(p) ==
    /\ rrc[p].pc = "loaded"
    /\ rr' = [rr EXCEPT !.counter = rrc[p].reg + 1]
    /\ rrc' = [rrc EXCEPT ![p].pc = "idle", ![p].done = @ + 1]
    /\ UNCHANGED RRIdleVars

InitRoundRobin ==
    /\ now = 0
    /\ NewFallbackHandler(getDefaultConfig)
    /\ NoRequest
    /\ NoCallers
    /\ execLimit = MaxExecOpsHandler
    /\ \E accounts \in CandidateLists : candidates = RowsOf(accounts)
    /\ perf = <<>>
    /\ call = [op |-> "none"]
    /\ rrRun = NoRun
    /\ NoLife

NextRoundRobin ==
    \/ \E p \in Callers : RRSort(p)
    \/ \E p \in Callers : RRStampBegin(p)
    \/ \E p \in Callers : RRStampEnd(p)
    \/ RRCrash
    \/ \E p \in Callers : RRLoad(p)
    \/ \E p \in Callers : RRStore(p)

SpecRoundRobin == InitRoundRobin /\ [][NextRoundRobin]_vars

RECURSIVE CallsDone(_)
CallsDone(ps) ==
    IF ps = {} THEN 0
    ELSE LET p == CHOOSE x \in ps : TRUE IN rrc[p].done + CallsDone(ps \ {p})

RECURSIVE SerialSelects(_, _, _)
\* the selector after n calls made one after the other
SerialSelects(s, accounts, n) ==
    IF n = 0 THEN s ELSE SerialSelects(RoundRobinAfter(s, accounts), accounts, n - 1)

\* C29: whenever the callers of Select have all returned, the counter equals
\* the number of calls made and the selector is in the state that many calls
\* one after the other leave it in.
C29_RoundRobinSerializable ==
    (\A p \in Callers : rrc[p].pc = "idle")
       => /\ rr.counter = CallsDone(Callers)
          /\ rr = SerialSelects(NewRoundRobinSelector, candidates, CallsDone(Callers))


\* ------------------------------------------------------------------------
\* Claims about manual disabling, the selectors' order and the attempt loop
\* ------------------------------------------------------------------------
\* the loop of executeFallback stands before accounts[i]
AtAccount(accountID) ==
    /\ rq.pc = "loop"
    /\ rq.i < rq.maxAttempts
    /\ rq.sortedAccounts[rq.i + 1] = accountID

\* C31: SetAccountDisabled leaves the entry disabled until now + d; while
\* that time lies ahead no request starts an attempt for the account;
\* EnableAccount clears DisabledUntil and the reason and sets the status
\* healthy; and a request whose loop reaches an account with a healthy,
\* not disabled entry attempts it.
C31_DisableThenEnable ==
    /\ [][\A a \in Accounts, d \in DisableDurations :
            DisableAccount(a, d)
              => /\ health'[a].exists
                 /\ health'[a].Status = "disabled"
                 /\ health'[a].DisabledUntil = now + d]_vars
    /\ [][\A a \in Accounts :
            (AtAccount(a) /\ rq' # rq /\ health[a].exists /\ IsDisabled(health[a], now))
              => rq'.pc = "loop"]_vars
    /\ [][\A a \in Accounts :
            (ReenableAccount(a) /\ health[a].exists)
              => /\ health'[a].DisabledUntil = NoTime
                 /\ health'[a].Status = "healthy"
                 /\ health'[a].FailureReason = <<>>]_vars
    /\ [][\A a \in Accounts :
            (/\ AtAccount(a) /\ rq' # rq /\ health[a].exists
             /\ health[a].Status = "healthy" /\ health[a].DisabledUntil = NoTime)
              => (rq'.pc = "exec" /\ rq'.account = a)]_vars


\* C32: the list PrioritySelector returns is in ascending order of Priority,
\* and candidates of equal Priority are in ascending order of
\* TodayUsageCount: for every adjacent pair (x, y) of the result,
\* x.Priority < y.Priority, or x.Priority = y.Priority and
\* x.TodayUsageCount <= y.TodayUsageCount.
C32_PriorityOrder ==
    (call.op = "Select" /\ call.selector = "PrioritySelector")
      => \A k \in 1 .. Len(call.result) - 1 :
            LET x == call.result[k]
                y == call.result[k + 1]
            IN  \/ x.Priority < y.Priority
                \/ x.Priority = y.Priority /\ x.TodayUsageCount <= y.TodayUsageCount

\* a call that had to reorder two candidates of equal Priority by usage,
\* and one that put a lower Priority number first
C32_Witness ==
    /\ call.op = "Select"
    /\ call.selector = "PrioritySelector"
    /\ Len(call.input) = 2
    /\ call.result # call.input
    /\ \/ /\ call.input[1].Priority = call.input[2].Priority
          /\ call.input[1].TodayUsageCount > call.input[2].TodayUsageCount
       \/ call.input[1].Priority > call.input[2].Priority


\* C33: the result of every attempt reports Success exactly when its
\* StatusCode lies in 200 .. 399, whatever the executor called on the
\* capture, an executor that only writes a body included.
C33_SuccessMatchesStatusCode ==
    rq.pc = "attempted"
      => (rq.result.Success <=> (200 <= rq.result.StatusCode /\ rq.result.StatusCode < 400))


\* the candidates of the request that the health test did not skip
NotSkipped == Len(rq.sortedAccounts) - Cardinality(hist.skipped)

\* C34: when the loop of a request ends with every attempt failed, the
\* executor has been called min(MaxRetries, candidates not skipped) times:
\* a candidate the health test skips does not use up an attempt.
C34_SkipsKeepBudget ==
    (rq.pc = "post" /\ ~rq.result.Success)
      => Len(hist.invoked) = Min(config.MaxRetries, NotSkipped)


\* the request has returned before the attempt loop
ReturnedEarly ==
    /\ rq.pc = "done"
    /\ rq.result.FailureReason \in {"circuit_breaker_open", "no_available_accounts"}

\* C35: a request that returns circuit_breaker_open or
\* no_available_accounts has called no executor, and none of its steps
\* changes failureCount or lastFailureTime of the breaker, a health record
\* or the request history.
C35_EarlyReturnTouchesNothing ==
    /\ [](ReturnedEarly => (hist.invoked = <<>> /\ hist.outcomes = <<>>))
    /\ [][(/\ rq' # rq
           /\ rq.pc \in {"idle", "done", "breaker", "select"}
           /\ rq'.pc \in {"breaker", "select", "done"})
            => /\ cb'.failureCount = cb.failureCount
               /\ cb'.lastFailureTime = cb.lastFailureTime
               /\ health' = health
               /\ requestHistory' = requestHistory]_vars

\* a request turned away by the open breaker of a handler that has records
C35_Witness ==
    /\ ReturnedEarly
    /\ rq.result.FailureReason = "circuit_breaker_open"
    /\ cb.failureCount > 0
    /\ \E a \in Accounts : health[a].exists
    /\ requestHistory # NoRequestHistory

\* a request that found the breaker past its recovery window and then no account
C35_WitnessNoAccounts ==
    /\ ReturnedEarly
    /\ rq.result.FailureReason = "no_available_accounts"
    /\ cb.state = CircuitHalfOpen


\* ------------------------------------------------------------------------
\* A request on a handler whose configured strategy the manager replaces
\* ------------------------------------------------------------------------
\* the configurations UpdateConfig may install: those of ConfigSet and the
\* built-in one with another strategy
StrategyConfigs ==
    ConfigSet \cup { [getDefaultConfig EXCEPT !.Strategy = s] : s \in Strategies }

InitStrategy ==
    /\ now = 0
    /\ NewFallbackHandler(getDefaultConfig)
    /\ NoRequest
    /\ NoCallers
    /\ NoSideCalls
    /\ execLimit = MaxExecOpsHandler

\* no account has a health record during the first request, so the loop
\* skips none
NextStrategy ==
    \/ \E accounts \in CandidateLists : FirstRequest(accounts)
    \/ CheckBreaker
    \/ SelectAccounts
    \/ BeginAttempt
    \/ \E code \in StatusCodes : ExecWriteHeader(code)
    \/ \E data \in ExecData : ExecWrite(data)
    \/ FinishAttempt
    \/ AfterAttempt
    \/ Sleep
    \/ Exhausted
    \/ UpdateBreaker
    \/ UpdateHealth
    \/ \E c \in StrategyConfigs : UpdateHandlerConfig(c)

SpecStrategy == InitStrategy /\ [][NextStrategy]_vars

\* C36: the StrategyUsed of a result that comes out of the attempt loop is
\* a strategy for which createAccountSelector builds the selector that
\* ordered the candidates, also when UpdateConfig replaced the
\* configuration before or during the request.
C36_StrategyUsedNamesSelector ==
    (rq.pc \in {"health", "done"} /\ ~ReturnedEarly)
      => createAccountSelector(rq.result.StrategyUsed) = selector


\* C37: when a non-streaming attempt has succeeded after a failed one, the
\* header map the client's response went out with holds, besides the
\* Content-Type the flush sets, only names the successful attempt's executor
\* set, and every name that executor set (Content-Type and Content-Length
\* aside) exactly once.
C37_OnlySuccessfulAttemptsHeaders ==
    (/\ rq.pc = "attempted" /\ rq.result.Success /\ ~capture.isStreamMode
     /\ Len(hist.outcomes) >= 2)
      => \A n \in HeaderNames \ {"Content-Type"} :
            /\ n \notin hist.headersSet => client.header[n] = <<>>
            /\ (n \in hist.headersSet /\ n # "Content-Length")
                  => Len(client.header[n]) = 1


\* ------------------------------------------------------------------------
\* Requests, the health monitor's sweeps and minutes between them
\* ------------------------------------------------------------------------
RecoverWaits == {OneMinute, FiveMinutes + ThirtySeconds}

\* call.unhealthy: the accounts a sweep has found unhealthy so far
NoRecoverCalls == [op |-> "none", at |-> 0, waits |-> 0, unhealthy |-> {}]

\* the ticker of HealthMonitor.Start fires: performHealthCheck
MonitorSweep ==
    /\ monitorStarted
    /\ health' = performHealthCheck(health, now)
    /\ call' = [call EXCEPT !.op = "sweep", !.at = now,
                  !.unhealthy = @ \cup {a \in Accounts : /\ health'[a].exists
                                                         /\ health'[a].Status = "unhealthy"}]
    /\ UNCHANGED <<config, selector, monitorStarted, requestHistory, rq, capture, client,
                   hist, execLimit, reqCount, envOps, now, cb, mu, lftWriting, cbpc,
                   cbreg, lastTrans, succSinceHalfOpen, rr, candidates, perf, rrRun,
                   lifeVars>>

\* minutes pass while no request is inside the handler
WaitBetweenRequests(d) ==
    /\ rq.pc \in {"idle", "done"}
    /\ Wait(d)

InitRecover ==
    /\ now = 0
    /\ NewFallbackHandler(getDefaultConfig)
    /\ NoRequest
    /\ NoCallers
    /\ execLimit = MaxExecOpsHandler
    /\ candidates = <<>>
    /\ perf = <<>>
    /\ rrRun = NoRun
    /\ NoLife
    /\ call = NoRecoverCalls

\* RetryDelay is 0 in the built-in configuration, so no request sleeps
NextRecover ==
    \/ \E accounts \in CandidateLists : StartRequest(accounts)
    \/ CheckBreaker
    \/ SelectAccounts
    \/ SkipAccount
    \/ BeginAttempt
    \/ \E code \in StatusCodes : ExecWriteHeader(code)
    \/ FinishAttempt
    \/ AfterAttempt
    \/ Exhausted
    \/ UpdateBreaker
    \/ UpdateHealth
    \/ MonitorSweep
    \/ \E d \in RecoverWaits : WaitBetweenRequests(d)

SpecRecover == InitRecover /\ [][NextRecover]_vars

\* C38: a sweep gives an unhealthy, not disabled entry whose last success
\* and last failure are more than five minutes old the status idle, and a
\* request whose loop reaches an account with an idle, not disabled entry
\* attempts it.
C38_UnhealthyComesBack ==
    /\ [][MonitorSweep =>
            \A a \in Accounts :
               (/\ health[a].exists
                /\ health[a].Status = "unhealthy"
                /\ ~IsDisabled(health[a], now)
                /\ Since(health[a].LastSuccess, now) > FiveMinutes
                /\ Since(health[a].LastFailure, now) > FiveMinutes)
                 => health'[a].Status = "idle"]_vars
    /\ [][\A a \in Accounts :
            (/\ AtAccount(a) /\ rq' # rq /\ health[a].exists
             /\ health[a].Status = "idle" /\ ~IsDisabled(health[a], now))
              => (rq'.pc = "exec" /\ rq'.account = a)]_vars

\* the executor runs for an account a sweep had found unhealthy and a later
\* sweep found idle
C38_Witness ==
    \E a \in Accounts :
        /\ a \in call.unhealthy
        /\ health[a].Status = "idle"
        /\ RateAbove(health[a].ErrorRate, 1, 2)
        /\ rq.pc = "exec"
        /\ rq.account = a


\* C39: a call of IsOpen that finds the breaker Open more than
\* recoveryWindow after the last failure, while no RecordFailure is under
\* way, is admitted: its compare-and-swap takes the breaker to HalfOpen and
\* it returns false; and a call that returns true leaves failureCount and
\* lastFailureTime as they were.
C39_OpenBreakerAdmitsAfterRecovery ==
    /\ [][\A p \in Callers :
            (/\ cbpc[p] = "io_cas" /\ cbpc'[p] # "io_cas"
             /\ mu = 0
             /\ Since(cb.lastFailureTime, now) > cb.recoveryWindow)
              => (cbpc'[p] = "io_reset" /\ cb'.state = CircuitHalfOpen)]_vars
    /\ [][\A p \in Callers :
            (cbpc[p] \in {"io_check", "io_cas"} /\ cbpc'[p] = "idle")
              => /\ cb'.failureCount = cb.failureCount
                 /\ cb'.lastFailureTime = cb.lastFailureTime]_vars


\* ------------------------------------------------------------------------
\* The breaker called by one caller at a time, with time between the calls
\* ------------------------------------------------------------------------
CallIsOpen ==
    /\ cb' = IsOpen(cb, now).cb
    /\ UNCHANGED <<mu, lftWriting, cbpc, cbreg, lastTrans, succSinceHalfOpen>>
    /\ UNCHANGED NotBreaker

CallRecordSuccess ==
    /\ cb.consecutiveSuccess < MaxConsecutive
    /\ cb' = RecordSuccess(cb, now)
    /\ UNCHANGED <<mu, lftWriting, cbpc, cbreg, lastTrans, succSinceHalfOpen>>
    /\ UNCHANGED NotBreaker

CallRecordFailure ==
    /\ cb.failureCount < MaxFailureCount
    /\ cb' = RecordFailure(cb, now)
    /\ UNCHANGED <<mu, lftWriting, cbpc, cbreg, lastTrans, succSinceHalfOpen>>
    /\ UNCHANGED NotBreaker

\* a breaker built with any threshold and windows within the bounds
InitWindow ==
    /\ now = 0
    /\ \E th \in 1 .. MaxThreshold, fw \in 1 .. MaxWindow, rw \in 0 .. MaxWindow :
          NewFallbackHandler([getDefaultConfig EXCEPT !.CircuitBreakerThreshold = th,
                                                     !.FailureWindow = fw,
                                                     !.RecoveryWindow = rw])
    /\ NoRequest
    /\ NoCallers
    /\ NoSideCalls
    /\ execLimit = MaxExecOpsHandler

NextWindow ==
    \/ CallIsOpen
    \/ CallRecordSuccess
    \/ CallRecordFailure
    \/ Tick

SpecWindow == InitWindow /\ [][NextWindow]_vars

\* C40: the breaker goes Closed->Open only on threshold failures recorded
\* within failureWindow of the transition; for a threshold of two or more
\* this needs the failure recorded before the opening one to be at most
\* failureWindow old.
C40_OpensOnFailuresInWindow ==
    [][(cb.state = CircuitClosed /\ cb'.state = CircuitOpen /\ cb.threshold >= 2)
          => Since(cb.lastFailureTime, now) <= cb.failureWindow]_vars
====
